---- MODULE Spec2Model ----
(***************************************************************************)
(* Pomodoro timer: the countdown engine (hooks/useTimer.ts, both variants  *)
(* kept in the file), the dial drag controller (hooks/useDialDrag.ts) and  *)
(* the coordinator (App.tsx).                                              *)
(*                                                                         *)
(* React semantics used by the model:                                      *)
(*  - a ref (useRef) is written at once; a useState setter takes effect at *)
(*    the render that follows the handler, modelled in the same step;      *)
(*  - a useEffect body runs after the render whose dependencies changed,   *)
(*    with the values of THAT render (its closure), as a step of its own;  *)
(*  - the effects of a render are flushed before a later render's effects  *)
(*    are, and at most one older effect is outstanding when a handler runs;*)
(*  - an updater passed to a setter is run by React either at once (eager) *)
(*    or at the next render: code after the setter call cannot rely on it. *)
(***************************************************************************)
EXTENDS Integers, Sequences, FiniteSets, TLC

VARIABLES
    variant,            \* which useTimer in hooks/useTimer.ts: "effect" or "inline"
    remainingSeconds,   \* useTimer state
    state,              \* useTimer state: "idle" | "running" | "done"
    intervalRef,        \* useTimer ref: handle of the schedule, or NULL
    liveIntervals,      \* the host's live setInterval schedules
    alarmFiredRef,      \* useTimer ref: the one-shot guard
    pendingEffects,     \* completion effects not yet run, each with its render's values
    draggingRef,        \* useDialDrag ref
    isDragging,         \* useDialDrag state
    angleDeg,           \* useDialDrag state
    dragMinutes,        \* useDialDrag state
    totalSeconds,       \* App state
    isDialDragging,     \* App state: the coordinator's isDragging flag
    dragPreviewMinutes, \* App state: the coordinator's preview minutes
    pendingPreviews,    \* AnalogDial preview effects not yet run, with their render's values
    mounted,            \* the host component is mounted
    lastEvent,          \* the last handler that ran, with its input and what it emitted
    runTotal,           \* history: argument of the last start(), -1 before any
    ticksThisRun,       \* history: interval callbacks run since the last start()
    alarmsThisRun,      \* history: playAlarm() calls since the last start()
    donesThisRun,       \* history: transitions into done since the last start()
    resetSinceStart,    \* history: reset() was called since the last start()
    retargeted,         \* history: the last start() was called while running
    staleTick,          \* history: a callback of a schedule other than intervalRef ran
    gesture,            \* history: "none" | "active" | "ended"
    commitsThisGesture, \* history: onDragEnd calls since the last gesture-start
    convAngle,          \* conversion check: the angle last converted
    convMinutes,        \* conversion check: its result
    convPrevAngle,      \* conversion check: a second angle, not above convAngle
    convPrevMinutes,    \* conversion check: its result
    convDone,           \* conversion check: the two results were computed
    likelyIOS,          \* platform: isLikelyIOS() of utils/sound.ts
    hasAudioContextCtor,\* platform: window.AudioContext ?? webkitAudioContext exists
    canVibrate,         \* platform: 'vibrate' in navigator
    audioCtx,           \* sound.ts: "null", or the state of the AudioContext
    isAudioUnlocked,    \* sound.ts
    unlockInFlight,     \* sound.ts: the unlock promise is not null
    fallbackAudio,      \* sound.ts: "null", or the clip element [volume, playback]
    fallbackAudioUnlocked,  \* sound.ts
    fallbackUnlockInFlight, \* sound.ts: the clip unlock promise is not null
    playResumes,        \* resume() promises of playAlarm not yet settled
    clipPromises,       \* play() promises of the clip whose callbacks have not run
    alarmEvent,         \* the last alarm operation or callback, with what it did
    fallbackRunId,      \* alarm session: the run identifier of the fallback sequence
    fallbackLoops,      \* the repeat loops that have not exited, [runId, played]
    runClip,            \* the run whose repetition of the clip is sounding, 0 for none
    vibrating,          \* a vibration pattern is active
    cancelledRun,       \* history: the last run that stop() cancelled mid-sequence
    runEvent,           \* the last operation or loop iteration of the fallback sequence
    dialRect,           \* what getBoundingClientRect() of the dial element returns now
    pressCenter,        \* history: the center measured by the press that began the gesture
    pressButton,        \* history: what began the gesture: "none" | "primary" | "secondary" | "touch"
    samplePoint,        \* history: the pointer position of the last gesture sample
    isCompletionDismissed,        \* App state (variant with the completion modal)
    completionAutoCloseTimerRef,  \* App ref: the auto-close timeout is armed
    escapeListening,    \* the modal effect's keydown listener is registered
    pendingModalEffects,\* modal effects not yet run, each with its render's isCompletionModalOpen
    audioUnlockInstalled,   \* sound.ts
    unlockHandlers,     \* the unlockHandler closures registered on the window
    unlockEvent         \* the last installAudioUnlock() call or user gesture, with what it did

timerVars == <<variant, remainingSeconds, state, intervalRef, liveIntervals,
               alarmFiredRef, pendingEffects, mounted>>
timerHist == <<runTotal, ticksThisRun, alarmsThisRun, donesThisRun,
               resetSinceStart, retargeted, staleTick>>
dragVars == <<draggingRef, isDragging, angleDeg, dragMinutes>>
previewVars == <<isDialDragging, dragPreviewMinutes, pendingPreviews>>
dragHist == <<gesture, commitsThisGesture>>
convVars == <<convAngle, convMinutes, convPrevAngle, convPrevMinutes, convDone>>
alarmEnv == <<likelyIOS, hasAudioContextCtor, canVibrate>>
alarmVars == <<audioCtx, isAudioUnlocked, unlockInFlight, fallbackAudio,
               fallbackAudioUnlocked, fallbackUnlockInFlight, playResumes,
               clipPromises, alarmEvent>>
\* The parts that are explored under specifications of their own.
runVars == <<fallbackRunId, fallbackLoops, runClip, vibrating, cancelledRun, runEvent>>
dialVars == <<dialRect, pressCenter, pressButton, samplePoint>>
modalVars == <<isCompletionDismissed, completionAutoCloseTimerRef, escapeListening,
               pendingModalEffects>>
unlockVars == <<audioUnlockInstalled, unlockHandlers, unlockEvent>>
detachedVars == <<convVars, alarmEnv, alarmVars, runVars, dialVars, modalVars, unlockVars>>
vars == <<timerVars, timerHist, dragVars, dragHist, totalSeconds, previewVars,
          lastEvent, detachedVars>>

----------------------------------------------------------------------------
(* Bounds of the model *)

MaxTotal == 3        \* start(N) is called with N in 0..MaxTotal in SpecTimer
MaxIntervals == 2    \* schedule handles the host hands out
MaxTicks == 62       \* interval callbacks followed per run in Spec
MaxLongRunTicks == 3 \* the same, for a run too long to end within MaxTicks
MaxPlayResumes == 2  \* resume() promises of playAlarm pending at once
MaxClipPromises == 3 \* play() promises of the clip with callbacks still to run
MaxRuns == 4         \* run identifiers handed out by play() and stop()

(* Program constants *)

NULL == 0
MIN_MINUTES == 1
MAX_MINUTES == 60
FULL_TURN == 360
SECONDS_PER_MINUTE == 60

Variants == {"effect", "inline"}

(* Angles of the gesture samples in Spec, in whole degrees clockwise from *)
(* 12 o'clock: the range of getAngleFromCenter is [0, 360).               *)
SampleAngles == {0, 2, 90}

(* Pointer positions and dial rectangles of the gesture samples in SpecDial, *)
(* in CSS pixels of the viewport (x to the right, y downwards). Every point *)
(* lies on an axis or a diagonal through the center of every rectangle.     *)
SamplePoints == {[x |-> 2, y |-> 0], [x |-> 2, y |-> 2], [x |-> 2, y |-> 4],
                 [x |-> 0, y |-> 2]}

RectAtRest == [left |-> 0, top |-> 0, width |-> 4, height |-> 4]
RectShifted == [left |-> 0, top |-> 2, width |-> 4, height |-> 4]
RectCollapsed == [left |-> 2, top |-> 0, width |-> 0, height |-> 0]
DialRects == {RectAtRest, RectShifted, RectCollapsed}

Bump(n) == IF n < 2 THEN n + 1 ELSE n

Event(op, arg) ==
    [op |-> op, arg |-> arg, onDial |-> TRUE, wasDragging |-> FALSE,
     committed |-> 0, previewBefore |-> 0, stateBefore |-> state]

----------------------------------------------------------------------------
(* Countdown engine: hooks/useTimer.ts *)

clearTimerKeepsHostSchedule == liveIntervals

\* The live schedules after clearTimer(); intervalRef is NULL after it.
clearTimer ==
    IF intervalRef # NULL THEN liveIntervals \ {intervalRef} ELSE liveIntervals

\* setInterval: a handle that is not live.
setInterval(live) ==
    CHOOSE i \in 1..MaxIntervals :
        i \notin live /\ \A j \in 1..MaxIntervals : j \notin live => i <= j

\* The render after a handler: the completion effect is scheduled when one
\* of its dependencies [remainingSeconds, state] changed (effect variant).
Render(newState, newRemaining) ==
    IF variant = "effect" /\ <<newState, newRemaining>> # <<state, remainingSeconds>>
    THEN Append(pendingEffects,
                [state |-> newState, remainingSeconds |-> newRemaining])
    ELSE pendingEffects

\* React runs the effects of a render before those of a later one: a handler
\* finds at most one effect of an earlier render outstanding.
PreviousEffectsFlushed == Len(pendingEffects) <= 1

\* The updater of setRemainingSeconds in the interval callback.
Decrement(prev) == IF prev <= 1 THEN 0 ELSE prev - 1

startRejectsZero(total) ==
    /\ PreviousEffectsFlushed
    /\ \E i \in 1..MaxIntervals : i \notin clearTimer
    /\ IF total = 0
       THEN UNCHANGED <<liveIntervals, intervalRef, alarmFiredRef, remainingSeconds,
                        state, pendingEffects>>
       ELSE /\ liveIntervals' = clearTimer \cup {setInterval(clearTimer)}
            /\ intervalRef' = setInterval(clearTimer)
            /\ alarmFiredRef' = FALSE
            /\ remainingSeconds' = total
            /\ state' = "running"
            /\ pendingEffects' = Render("running", total)
    /\ UNCHANGED <<variant, mounted>>
    /\ runTotal' = total
    /\ ticksThisRun' = 0
    /\ alarmsThisRun' = 0
    /\ donesThisRun' = 0
    /\ resetSinceStart' = FALSE
    /\ retargeted' = (state = "running")
    /\ staleTick' = FALSE

\* start: primeAlarmAudio() acts on the alarm session of utils/sound.ts only;
\* the engine's own state changes as below.
start(total) ==
    /\ PreviousEffectsFlushed
    /\ \E i \in 1..MaxIntervals : i \notin clearTimer
    /\ liveIntervals' = clearTimer \cup {setInterval(clearTimer)}
    /\ intervalRef' = setInterval(clearTimer)
    /\ alarmFiredRef' = FALSE
    /\ remainingSeconds' = total
    /\ state' = "running"
    /\ pendingEffects' = Render("running", total)
    /\ UNCHANGED <<variant, mounted>>
    /\ runTotal' = total
    /\ ticksThisRun' = 0
    /\ alarmsThisRun' = 0
    /\ donesThisRun' = 0
    /\ resetSinceStart' = FALSE
    /\ retargeted' = (state = "running")
    /\ staleTick' = FALSE

resetKeepsSchedule ==
    /\ PreviousEffectsFlushed
    /\ UNCHANGED <<liveIntervals, intervalRef>>
    /\ alarmFiredRef' = FALSE
    /\ remainingSeconds' = 0
    /\ state' = "idle"
    /\ pendingEffects' = Render("idle", 0)
    /\ resetSinceStart' = TRUE
    /\ UNCHANGED <<variant, mounted, runTotal, ticksThisRun, alarmsThisRun,
                   donesThisRun, retargeted, staleTick>>

reset ==
    /\ PreviousEffectsFlushed
    /\ liveIntervals' = clearTimer
    /\ intervalRef' = NULL
    /\ alarmFiredRef' = FALSE
    /\ remainingSeconds' = 0
    /\ state' = "idle"
    /\ pendingEffects' = Render("idle", 0)
    /\ resetSinceStart' = TRUE
    /\ UNCHANGED <<variant, mounted, runTotal, ticksThisRun, alarmsThisRun,
                   donesThisRun, retargeted, staleTick>>

completeKeepsSchedule ==
    /\ UNCHANGED <<liveIntervals, intervalRef>>
    /\ state' = "done"
    /\ alarmFiredRef' = TRUE
    /\ alarmsThisRun' = IF alarmFiredRef THEN alarmsThisRun ELSE Bump(alarmsThisRun)
    /\ donesThisRun' = IF state # "done" THEN Bump(donesThisRun) ELSE donesThisRun

\* The part shared by the completion effect and the inline completion:
\* clearTimer(); setState('done'); the guarded playAlarm().
complete ==
    /\ liveIntervals' = clearTimer
    /\ intervalRef' = NULL
    /\ state' = "done"
    /\ alarmFiredRef' = TRUE
    /\ alarmsThisRun' = IF alarmFiredRef THEN alarmsThisRun ELSE Bump(alarmsThisRun)
    /\ donesThisRun' = IF state # "done" THEN Bump(donesThisRun) ELSE donesThisRun

\* The interval callback of schedule id.
tick(id) ==
    /\ id \in liveIntervals
    /\ PreviousEffectsFlushed
    /\ ticksThisRun' = IF ticksThisRun <= runTotal + 1 THEN ticksThisRun + 1
                       ELSE ticksThisRun
    /\ staleTick' = (staleTick \/ id # intervalRef)
    /\ remainingSeconds' = Decrement(remainingSeconds)
    /\ UNCHANGED <<variant, mounted, runTotal, resetSinceStart, retargeted>>
    /\ \/ /\ variant = "effect"
          /\ pendingEffects' = Render(state, Decrement(remainingSeconds))
          /\ UNCHANGED <<state, intervalRef, liveIntervals, alarmFiredRef,
                         alarmsThisRun, donesThisRun>>
       \/ /\ variant = "inline"
          /\ UNCHANGED pendingEffects
          \* didFinish is set inside the updater and read right after the
          \* setter call: it is true only when React ran the updater eagerly.
          /\ \E eager \in (IF remainingSeconds <= 1 THEN BOOLEAN ELSE {FALSE}) :
                IF eager /\ remainingSeconds <= 1
                THEN complete
                ELSE UNCHANGED <<state, intervalRef, liveIntervals, alarmFiredRef,
                                 alarmsThisRun, donesThisRun>>

\* The "Watch for completion" effect, run with the values of its render.
completionEffectAnyState ==
    /\ pendingEffects # <<>>
    /\ LET snap == Head(pendingEffects) IN
       IF snap.remainingSeconds = 0
       THEN /\ complete
            /\ pendingEffects' =
                   IF state # "done"
                   THEN Append(Tail(pendingEffects),
                               [state |-> "done", remainingSeconds |-> remainingSeconds])
                   ELSE Tail(pendingEffects)
       ELSE /\ pendingEffects' = Tail(pendingEffects)
            /\ UNCHANGED <<state, intervalRef, liveIntervals, alarmFiredRef,
                           alarmsThisRun, donesThisRun>>
    /\ UNCHANGED <<variant, mounted, remainingSeconds, runTotal, ticksThisRun,
                   resetSinceStart, retargeted, staleTick>>

completionEffect ==
    /\ pendingEffects # <<>>
    /\ LET snap == Head(pendingEffects) IN
       IF snap.state = "running" /\ snap.remainingSeconds = 0
       THEN /\ complete
            /\ pendingEffects' =
                   IF state # "done"
                   THEN Append(Tail(pendingEffects),
                               [state |-> "done", remainingSeconds |-> remainingSeconds])
                   ELSE Tail(pendingEffects)
       ELSE /\ pendingEffects' = Tail(pendingEffects)
            /\ UNCHANGED <<state, intervalRef, liveIntervals, alarmFiredRef,
                           alarmsThisRun, donesThisRun>>
    /\ UNCHANGED <<variant, mounted, remainingSeconds, runTotal, ticksThisRun,
                   resetSinceStart, retargeted, staleTick>>

\* The cleanup of the unmount effect. React flushes the effects of earlier
\* renders before it commits the unmount.
unmountKeepsSchedule ==
    /\ mounted
    /\ pendingEffects = <<>>
    /\ mounted' = FALSE
    /\ UNCHANGED <<liveIntervals, intervalRef>>
    /\ UNCHANGED <<variant, remainingSeconds, state, alarmFiredRef, pendingEffects,
                   timerHist>>

unmount ==
    /\ mounted
    /\ pendingEffects = <<>>
    /\ mounted' = FALSE
    /\ liveIntervals' = clearTimer
    /\ intervalRef' = NULL
    /\ UNCHANGED <<variant, remainingSeconds, state, alarmFiredRef, pendingEffects,
                   timerHist>>

----------------------------------------------------------------------------
(* Angle/duration conversion and drag controller: hooks/useDialDrag.ts *)

\* Math.round((angleDeg / 360) * MAX_MINUTES): Math.round(x) = floor(x + 1/2).
RoundedMinutes(a) == (2 * a * MAX_MINUTES + FULL_TURN) \div (2 * FULL_TURN)

Min(a, b) == IF a <= b THEN a ELSE b
Max(a, b) == IF a >= b THEN a ELSE b

angleToMinutesNoFloor(a) == Min(MAX_MINUTES, RoundedMinutes(a))
angleToMinutes(a) == Max(MIN_MINUTES, Min(MAX_MINUTES, RoundedMinutes(a)))

\* const clampedAngle = angle === 0 ? 360 : angle
clampedAngleKeepsZero(angle) == angle
clampedAngle(angle) == IF angle = 0 THEN FULL_TURN ELSE angle

\* A handler is given its sample as the angle getAngleFromCenter returns for
\* it, or as NoCenter when getCenter() returned null. The dial element is
\* rendered unconditionally, so svgRef.current is set whenever a listener
\* runs and no sample of the specifications below is NoCenter.
NoCenter == -1

\* Math.atan2(dy, dx) in degrees, for an offset on an axis or a diagonal;
\* Math.atan2(0, 0) is 0.
Atan2Deg(dy, dx) ==
    IF dx = 0 /\ dy = 0 THEN 0
    ELSE IF dy = 0 THEN (IF dx > 0 THEN 0 ELSE 180)
    ELSE IF dx = 0 THEN (IF dy > 0 THEN 90 ELSE -90)
    ELSE IF dx = dy THEN (IF dx > 0 THEN 45 ELSE -135)
    ELSE (IF dx > 0 THEN -45 ELSE 135)

getAngleFromXAxis(cx, cy, x, y) == (Atan2Deg(y - cy, x - cx) + FULL_TURN) % FULL_TURN

\* getAngleFromCenter: degrees clockwise from 12 o'clock, in [0, 360).
getAngleFromCenter(cx, cy, x, y) ==
    LET deg == Atan2Deg(y - cy, x - cx) + 90
        wrapped == IF deg < 0 THEN deg + FULL_TURN ELSE deg IN
    wrapped % FULL_TURN

getCenterRejectsEmptyRect ==
    [ok |-> dialRect.width # 0 /\ dialRect.height # 0,
     cx |-> dialRect.left + dialRect.width \div 2,
     cy |-> dialRect.top + dialRect.height \div 2]

\* getCenter(): the center of the dial's bounding rectangle; ok is false for
\* the null it returns when svgRef.current is null.
getCenter ==
    [ok |-> TRUE,
     cx |-> dialRect.left + dialRect.width \div 2,
     cy |-> dialRect.top + dialRect.height \div 2]

\* The sample a handler works with for a pointer at p: center = getCenter();
\* if (!center) return; angle = getAngleFromCenter(cx, cy, clientX, clientY).
sampleAngle(p) ==
    IF getCenter.ok
    THEN getAngleFromCenter(getCenter.cx, getCenter.cy, p.x, p.y)
    ELSE NoCenter

\* The render of AnalogDial after a handler: its onDragPreview effect is
\* scheduled when one of its dependencies [isDragging, dragMinutes] changed.
RenderDial(newDragging, newMinutes) ==
    IF <<newDragging, newMinutes>> # <<isDragging, dragMinutes>>
    THEN Append(pendingPreviews, [isDragging |-> newDragging, dragMinutes |-> newMinutes])
    ELSE pendingPreviews

\* A gesture handler and a pending onDragPreview effect touch disjoint state
\* and React runs the effect before the handler's render: the effect is
\* taken to run before the handler.
PreviousPreviewsFlushed == pendingPreviews = <<>>

\* handleMove, called with the value draggingRef has at the call.
handleMoveUnguarded(dragging, a) ==
    /\ angleDeg' = IF a # NoCenter THEN clampedAngle(a) ELSE angleDeg
    /\ dragMinutes' = IF a # NoCenter THEN angleToMinutes(clampedAngle(a)) ELSE dragMinutes

handleMove(dragging, a) ==
    /\ angleDeg' = IF dragging /\ a # NoCenter THEN clampedAngle(a) ELSE angleDeg
    /\ dragMinutes' = IF dragging /\ a # NoCenter THEN angleToMinutes(clampedAngle(a))
                      ELSE dragMinutes

\* App.handleDragEnd, the onDragEnd the controller is given.
handleDragEndInMinutes(minutes) ==
    /\ totalSeconds' = minutes * SECONDS_PER_MINUTE
    /\ start(minutes)

handleDragEndTotalInMinutes(minutes) ==
    /\ totalSeconds' = minutes
    /\ start(minutes * SECONDS_PER_MINUTE)

handleDragEnd(minutes) ==
    /\ totalSeconds' = minutes * SECONDS_PER_MINUTE
    /\ start(minutes * SECONDS_PER_MINUTE)

\* The minutes handleEnd hands to onDragEnd for a release at angle a.
releaseMinutesFromPreview(a) == dragMinutes
releaseMinutes(a) == angleToMinutes(clampedAngle(a))

resetDragDisplaySkipped == UNCHANGED <<angleDeg, dragMinutes>>

\* "Reset drag display": setAngleDeg(0); setDragMinutes(0).
resetDragDisplay ==
    /\ angleDeg' = 0
    /\ dragMinutes' = 0

\* handleEnd for a release at angle a; op names the event that called it.
\* With no center it returns after clearing the dragging flags.
handleEndKeepsDragging(op, a, onDial) ==
    IF ~draggingRef
    THEN /\ UNCHANGED <<timerVars, timerHist, dragVars, dragHist, totalSeconds,
                        previewVars>>
         /\ lastEvent' = [Event(op, a) EXCEPT !.onDial = onDial]
    ELSE /\ draggingRef' = draggingRef
         /\ isDragging' = FALSE
         /\ PreviousPreviewsFlushed
         /\ UNCHANGED <<isDialDragging, dragPreviewMinutes>>
         /\ gesture' = "ended"
         /\ IF a = NoCenter
            THEN /\ UNCHANGED <<timerVars, timerHist, totalSeconds, commitsThisGesture,
                                angleDeg, dragMinutes>>
                 /\ pendingPreviews' = RenderDial(FALSE, dragMinutes)
                 /\ lastEvent' = [Event(op, a) EXCEPT !.onDial = onDial,
                                      !.wasDragging = TRUE, !.previewBefore = dragMinutes]
            ELSE /\ IF releaseMinutes(a) >= MIN_MINUTES
                    THEN /\ handleDragEnd(releaseMinutes(a))
                         /\ commitsThisGesture' = Bump(commitsThisGesture)
                    ELSE UNCHANGED <<timerVars, timerHist, totalSeconds,
                                     commitsThisGesture>>
                 /\ resetDragDisplay
                 /\ pendingPreviews' = RenderDial(FALSE, dragMinutes')
                 /\ lastEvent' = [Event(op, a) EXCEPT !.onDial = onDial,
                                      !.wasDragging = TRUE,
                                      !.committed = IF releaseMinutes(a) >= MIN_MINUTES
                                                    THEN releaseMinutes(a) ELSE 0,
                                      !.previewBefore = dragMinutes]

handleEnd(op, a, onDial) ==
    IF ~draggingRef
    THEN /\ UNCHANGED <<timerVars, timerHist, dragVars, dragHist, totalSeconds,
                        previewVars>>
         /\ lastEvent' = [Event(op, a) EXCEPT !.onDial = onDial]
    ELSE /\ draggingRef' = FALSE
         /\ isDragging' = FALSE
         /\ PreviousPreviewsFlushed
         /\ UNCHANGED <<isDialDragging, dragPreviewMinutes>>
         /\ gesture' = "ended"
         /\ IF a = NoCenter
            THEN /\ UNCHANGED <<timerVars, timerHist, totalSeconds, commitsThisGesture,
                                angleDeg, dragMinutes>>
                 /\ pendingPreviews' = RenderDial(FALSE, dragMinutes)
                 /\ lastEvent' = [Event(op, a) EXCEPT !.onDial = onDial,
                                      !.wasDragging = TRUE, !.previewBefore = dragMinutes]
            ELSE /\ IF releaseMinutes(a) >= MIN_MINUTES
                    THEN /\ handleDragEnd(releaseMinutes(a))
                         /\ commitsThisGesture' = Bump(commitsThisGesture)
                    ELSE UNCHANGED <<timerVars, timerHist, totalSeconds,
                                     commitsThisGesture>>
                 /\ resetDragDisplay
                 /\ pendingPreviews' = RenderDial(FALSE, dragMinutes')
                 /\ lastEvent' = [Event(op, a) EXCEPT !.onDial = onDial,
                                      !.wasDragging = TRUE,
                                      !.committed = IF releaseMinutes(a) >= MIN_MINUTES
                                                    THEN releaseMinutes(a) ELSE 0,
                                      !.previewBefore = dragMinutes]

handleStartToggles(op, a) ==
    /\ draggingRef' = ~draggingRef
    /\ isDragging' = ~draggingRef
    /\ handleMove(TRUE, a)
    /\ PreviousPreviewsFlushed
    /\ pendingPreviews' = RenderDial(isDragging', dragMinutes')
    /\ UNCHANGED <<isDialDragging, dragPreviewMinutes>>
    /\ gesture' = "active"
    /\ commitsThisGesture' = IF draggingRef THEN commitsThisGesture ELSE 0
    /\ lastEvent' = [Event(op, a) EXCEPT !.wasDragging = draggingRef]
    /\ UNCHANGED <<timerVars, timerHist, totalSeconds>>

\* handleMouseDown / handleTouchStart: a press on the dial at angle a.
handleStart(op, a) ==
    /\ draggingRef' = TRUE
    /\ isDragging' = TRUE
    /\ handleMove(TRUE, a)
    /\ PreviousPreviewsFlushed
    /\ pendingPreviews' = RenderDial(TRUE, dragMinutes')
    /\ UNCHANGED <<isDialDragging, dragPreviewMinutes>>
    /\ gesture' = "active"
    /\ commitsThisGesture' = IF draggingRef THEN commitsThisGesture ELSE 0
    /\ lastEvent' = [Event(op, a) EXCEPT !.wasDragging = draggingRef]
    /\ UNCHANGED <<timerVars, timerHist, totalSeconds>>

\* handleMouseMove / handleTouchMove: a move anywhere in the window.
handleMoveEvent(op, a) ==
    /\ handleMove(draggingRef, a)
    /\ UNCHANGED <<draggingRef, isDragging>>
    /\ PreviousPreviewsFlushed
    /\ pendingPreviews' = RenderDial(isDragging, dragMinutes')
    /\ UNCHANGED <<isDialDragging, dragPreviewMinutes>>
    /\ lastEvent' = [Event(op, a) EXCEPT !.wasDragging = draggingRef]
    /\ UNCHANGED <<timerVars, timerHist, dragHist, totalSeconds>>

\* App.handleReset, behind the reset button (disabled when idle with no total).
handleResetKeepsPreview ==
    /\ ~(state = "idle" /\ totalSeconds = 0)
    /\ reset
    /\ totalSeconds' = 0
    /\ UNCHANGED <<isDialDragging, dragPreviewMinutes>>
    /\ lastEvent' = [Event("resetClick", 0) EXCEPT !.wasDragging = isDialDragging,
                         !.previewBefore = dragPreviewMinutes]
    /\ UNCHANGED <<dragVars, dragHist, pendingPreviews>>

handleReset ==
    /\ ~(state = "idle" /\ totalSeconds = 0)
    /\ reset
    /\ totalSeconds' = 0
    /\ isDialDragging' = FALSE
    /\ dragPreviewMinutes' = 0
    /\ lastEvent' = [Event("resetClick", 0) EXCEPT !.wasDragging = isDialDragging,
                         !.previewBefore = dragPreviewMinutes]
    /\ UNCHANGED <<dragVars, dragHist, pendingPreviews>>

handleDragPreviewIgnoresFlag ==
    /\ pendingPreviews # <<>>
    /\ LET snap == Head(pendingPreviews) IN
       /\ UNCHANGED isDialDragging
       /\ dragPreviewMinutes' = IF snap.isDragging THEN snap.dragMinutes ELSE 0
    /\ pendingPreviews' = Tail(pendingPreviews)
    /\ lastEvent' = Event("preview", 0)
    /\ UNCHANGED <<timerVars, timerHist, dragVars, dragHist, totalSeconds>>

handleDragPreviewRetargets ==
    /\ pendingPreviews # <<>>
    /\ LET snap == Head(pendingPreviews) IN
       /\ isDialDragging' = snap.isDragging
       /\ dragPreviewMinutes' = IF snap.isDragging THEN snap.dragMinutes ELSE 0
       /\ IF snap.isDragging
          THEN start(snap.dragMinutes * SECONDS_PER_MINUTE)
          ELSE UNCHANGED <<timerVars, timerHist>>
    /\ pendingPreviews' = Tail(pendingPreviews)
    /\ lastEvent' = Event("preview", 0)
    /\ UNCHANGED <<dragVars, dragHist, totalSeconds>>

\* App.handleDragPreview called by the onDragPreview effect of AnalogDial,
\* with the values of the render that scheduled the effect.
handleDragPreview ==
    /\ pendingPreviews # <<>>
    /\ LET snap == Head(pendingPreviews) IN
       /\ isDialDragging' = snap.isDragging
       /\ dragPreviewMinutes' = IF snap.isDragging THEN snap.dragMinutes ELSE 0
    /\ pendingPreviews' = Tail(pendingPreviews)
    /\ lastEvent' = Event("preview", 0)
    /\ UNCHANGED <<timerVars, timerHist, dragVars, dragHist, totalSeconds>>

----------------------------------------------------------------------------
(* Display values derived by the coordinator at each render: App.tsx *)

getLabelIgnoresDone(s, total) ==
    IF s = "running" THEN "RUN"
    ELSE IF total > 0 THEN "SET"
    ELSE "FOC"

getLabel(s, total) ==
    IF s = "running" THEN "RUN"
    ELSE IF s = "done" THEN "END"
    ELSE IF total > 0 THEN "SET"
    ELSE "FOC"

label == getLabel(state, totalSeconds)

padNothing(n) == ToString(n)

\* String(n).padStart(2, '0')
pad(n) == LET str == ToString(n) IN IF Len(str) < 2 THEN "0" \o str ELSE str

previewSecondsFromEngine == remainingSeconds

previewSeconds ==
    IF isDialDragging THEN dragPreviewMinutes * SECONDS_PER_MINUTE ELSE remainingSeconds

shouldShowPlaceholder == state = "idle" /\ totalSeconds = 0 /\ ~isDialDragging

displayMins ==
    IF shouldShowPlaceholder THEN "--" ELSE pad(previewSeconds \div SECONDS_PER_MINUTE)

displaySecs ==
    IF shouldShowPlaceholder THEN "--" ELSE pad(previewSeconds % SECONDS_PER_MINUTE)

----------------------------------------------------------------------------
(* Alarm session: utils/sound.ts. Every promise callback is a step of its  *)
(* own; the callbacks chained on one promise (then, catch, finally) run in *)
(* the same step.                                                          *)

AlarmEvent(op) ==
    [op |-> op, tiers |-> {}, ok |-> TRUE, escaped |-> FALSE, reason |-> "none",
     attempts |-> {}, busy |-> {}, built |-> {}]

isContextBlockedSuspendedOnly(ctx) == ctx = "suspended"
isContextBlocked(ctx) == ctx \in {"suspended", "interrupted"}

\* getAudioContext(): the context it returns ("null" for none), whether the
\* constructor threw and whether the call constructed the context. A
\* context is constructed suspended or running.
getAudioContext ==
    IF audioCtx # "null" THEN {[ctx |-> audioCtx, threw |-> FALSE, built |-> FALSE]}
    ELSE IF ~hasAudioContextCtor THEN {[ctx |-> "null", threw |-> FALSE, built |-> FALSE]}
    ELSE {[ctx |-> "suspended", threw |-> FALSE, built |-> TRUE],
          [ctx |-> "running", threw |-> FALSE, built |-> TRUE],
          [ctx |-> "null", threw |-> TRUE, built |-> FALSE]}

getFallbackAudioRebuilds ==
    [audio |-> [fallbackAudio EXCEPT !.created = TRUE], built |-> TRUE]

\* getFallbackAudio(): the clip element, and whether the call constructed it
\* (it does on first use only).
getFallbackAudio ==
    [audio |-> [fallbackAudio EXCEPT !.created = TRUE], built |-> ~fallbackAudio.created]

\* What a call of each getter adds to the objects built in the step.
ctxBuilt(g) == IF g.built THEN {"ctx"} ELSE {}
clipBuilt == IF getFallbackAudio.built THEN {"clip"} ELSE {}

\* The play() promises of the clip that are pending, and those that pause()
\* has rejected (AbortError) and whose callbacks are still to run.
Pending(ps) == SelectSeq(ps, LAMBDA p : ~p.aborted)
Aborted(ps) == SelectSeq(ps, LAMBDA p : p.aborted)
HasBy(ps, who) == \E i \in DOMAIN ps : ps[i].by = who
AbortAll(ps) == [i \in DOMAIN ps |-> [ps[i] EXCEPT !.aborted = TRUE]]
OriginalVolume(ps) ==
    LET i == CHOOSE j \in DOMAIN ps : ps[j].by = "prime" IN ps[i].originalVolume

\* playVibrationFallback(): the tier it adds to the step.
playVibrationFallback == IF canVibrate THEN {"vibration"} ELSE {}

\* playFallbackAlarm(): pause, rewind, full volume, play().
playFallbackAlarm ==
    /\ fallbackAudio' = [getFallbackAudio.audio EXCEPT !.volume = 1, !.playback = "starting"]
    /\ clipPromises' = Append(AbortAll(clipPromises),
                              [by |-> "alarm", aborted |-> FALSE, originalVolume |-> 1])

\* primeFallbackAudio(): a muted trial play() unless unlocked or in flight.
primeFallbackAudioAlways ==
    /\ fallbackAudio' = [getFallbackAudio.audio EXCEPT
                            !.volume = 0,
                            !.playback = IF @ = "playing" THEN "playing" ELSE "starting"]
    /\ clipPromises' = Append(clipPromises,
                              [by |-> "prime", aborted |-> FALSE,
                               originalVolume |-> fallbackAudio.volume])
    /\ fallbackUnlockInFlight' = TRUE
    /\ UNCHANGED fallbackAudioUnlocked

primeFallbackAudio ==
    /\ IF fallbackAudioUnlocked \/ fallbackUnlockInFlight
       THEN /\ fallbackAudio' = getFallbackAudio.audio
            /\ UNCHANGED <<clipPromises, fallbackUnlockInFlight>>
       ELSE /\ fallbackAudio' = [getFallbackAudio.audio EXCEPT
                                    !.volume = 0,
                                    !.playback = IF @ = "playing" THEN "playing"
                                                 ELSE "starting"]
            /\ clipPromises' = Append(clipPromises,
                                      [by |-> "prime", aborted |-> FALSE,
                                       originalVolume |-> fallbackAudio.volume])
            /\ fallbackUnlockInFlight' = TRUE
    /\ UNCHANGED fallbackAudioUnlocked

\* The resources whose unlock is done or in flight when prime is called.
Busy ==
    (IF isAudioUnlocked \/ unlockInFlight THEN {"synth"} ELSE {})
        \cup (IF fallbackAudioUnlocked \/ fallbackUnlockInFlight THEN {"clip"} ELSE {})

\* primeAlarmAudio(). With a context that is not blocked unlockAudioContext
\* runs to its end within the call and the finally callback follows it.
primeAlarmAudio ==
    \E g \in getAudioContext :
        /\ audioCtx' = g.ctx
        /\ UNCHANGED playResumes
        /\ IF g.threw
           THEN /\ alarmEvent' = [AlarmEvent("prime") EXCEPT !.escaped = TRUE, !.ok = FALSE,
                                      !.busy = Busy]
                /\ UNCHANGED <<isAudioUnlocked, unlockInFlight, fallbackAudio,
                               fallbackAudioUnlocked, fallbackUnlockInFlight,
                               clipPromises>>
           ELSE LET startSynth == g.ctx # "null" /\ ~isAudioUnlocked /\ ~unlockInFlight IN
                /\ isAudioUnlocked' =
                       IF startSynth /\ ~isContextBlocked(g.ctx)
                       THEN g.ctx = "running" ELSE isAudioUnlocked
                /\ unlockInFlight' =
                       IF startSynth THEN isContextBlocked(g.ctx) ELSE unlockInFlight
                /\ primeFallbackAudio
                /\ alarmEvent' =
                       [AlarmEvent("prime") EXCEPT
                           !.busy = Busy,
                           !.built = ctxBuilt(g) \cup clipBuilt,
                           !.attempts =
                               (IF startSynth THEN {"synth"} ELSE {})
                                   \cup (IF fallbackUnlockInFlight' /\ ~fallbackUnlockInFlight
                                         THEN {"clip"} ELSE {})]

unlockResumeSettledStaleState(ok) ==
    /\ unlockInFlight
    /\ audioCtx' = IF ok THEN "running" ELSE audioCtx
    /\ isAudioUnlocked' = IF ok THEN audioCtx = "running" ELSE isAudioUnlocked
    /\ unlockInFlight' = FALSE
    /\ alarmEvent' = [AlarmEvent("unlockResume") EXCEPT !.ok = ok]
    /\ UNCHANGED <<fallbackAudio, fallbackAudioUnlocked, fallbackUnlockInFlight,
                   playResumes, clipPromises>>

\* unlockAudioContext after its await: resume() of the prime settled.
unlockResumeSettled(ok) ==
    /\ unlockInFlight
    /\ audioCtx' = IF ok THEN "running" ELSE audioCtx
    /\ isAudioUnlocked' = IF ok THEN audioCtx' = "running" ELSE isAudioUnlocked
    /\ unlockInFlight' = FALSE
    /\ alarmEvent' = [AlarmEvent("unlockResume") EXCEPT !.ok = ok]
    /\ UNCHANGED <<fallbackAudio, fallbackAudioUnlocked, fallbackUnlockInFlight,
                   playResumes, clipPromises>>

\* playAlarm(). scheduleAlarm(ctx) either schedules the four beeps or throws.
playAlarm ==
    IF likelyIOS
    THEN /\ playFallbackAlarm
         /\ alarmEvent' = [AlarmEvent("play") EXCEPT !.tiers = {"clip"}, !.reason = "platform",
                                                    !.built = clipBuilt]
         /\ UNCHANGED <<audioCtx, isAudioUnlocked, unlockInFlight, fallbackAudioUnlocked,
                        fallbackUnlockInFlight, playResumes>>
    ELSE \E g \in getAudioContext :
            /\ audioCtx' = g.ctx
            /\ UNCHANGED <<isAudioUnlocked, unlockInFlight, fallbackAudioUnlocked,
                           fallbackUnlockInFlight>>
            /\ IF g.threw
               THEN /\ alarmEvent' = [AlarmEvent("play") EXCEPT !.escaped = TRUE,
                                          !.ok = FALSE, !.reason = "constructorThrew"]
                    /\ UNCHANGED <<fallbackAudio, clipPromises, playResumes>>
               ELSE IF g.ctx = "null"
               THEN /\ playFallbackAlarm
                    /\ alarmEvent' = [AlarmEvent("play") EXCEPT !.tiers = {"clip"},
                                          !.reason = "noOutput", !.built = clipBuilt]
                    /\ UNCHANGED playResumes
               ELSE IF isContextBlocked(g.ctx)
               THEN /\ playResumes' = playResumes + 1
                    /\ alarmEvent' = [AlarmEvent("play") EXCEPT !.reason = "resuming",
                                                        !.built = ctxBuilt(g)]
                    /\ UNCHANGED <<fallbackAudio, clipPromises>>
               ELSE /\ \E scheduled \in BOOLEAN :
                        alarmEvent' =
                            IF scheduled
                            THEN [AlarmEvent("play") EXCEPT !.tiers = {"synth"},
                                                            !.built = ctxBuilt(g)]
                            ELSE [AlarmEvent("play") EXCEPT !.escaped = TRUE, !.ok = FALSE,
                                      !.reason = "scheduleThrew", !.built = ctxBuilt(g)]
                    /\ UNCHANGED <<fallbackAudio, clipPromises, playResumes>>

\* The then / catch callbacks of playAlarm's ctx.resume().
playResumeSettled(ok) ==
    /\ playResumes > 0
    /\ playResumes' = playResumes - 1
    /\ UNCHANGED <<unlockInFlight, fallbackAudioUnlocked, fallbackUnlockInFlight>>
    /\ IF ok
       THEN /\ audioCtx' = "running"
            /\ isAudioUnlocked' = TRUE
            /\ \E scheduled \in BOOLEAN :
                  IF scheduled
                  THEN /\ alarmEvent' = [AlarmEvent("playResume") EXCEPT !.tiers = {"synth"}]
                       /\ UNCHANGED <<fallbackAudio, clipPromises>>
                  ELSE /\ playFallbackAlarm
                       /\ alarmEvent' = [AlarmEvent("playResume") EXCEPT
                                            !.tiers = {"clip"}, !.reason = "scheduleThrew",
                                            !.built = clipBuilt]
       ELSE /\ playFallbackAlarm
            /\ alarmEvent' = [AlarmEvent("playResume") EXCEPT !.ok = FALSE,
                                  !.tiers = {"clip"}, !.reason = "resumeFailed",
                                  !.built = clipBuilt]
            /\ UNCHANGED <<audioCtx, isAudioUnlocked>>

\* The pending play() promises of the clip settle together, in the order of
\* their calls: playback began (ok) or was refused. An alarm promise has only
\* a catch callback (vibration); the prime promise pauses and rewinds the
\* clip when fulfilled and restores the volume either way.
clipPlaySettled(ok) ==
    LET settled == Pending(clipPromises)
        primeIn == HasBy(settled, "prime")
        alarmIn == HasBy(settled, "alarm") IN
    /\ settled # <<>>
    /\ ok \/ fallbackAudio.playback # "playing"
    /\ clipPromises' = Aborted(clipPromises)
    /\ fallbackAudio' =
           [fallbackAudio EXCEPT
               !.playback = IF ok /\ ~primeIn THEN "playing" ELSE "stopped",
               !.volume = IF primeIn THEN OriginalVolume(settled) ELSE @]
    /\ fallbackAudioUnlocked' = (fallbackAudioUnlocked \/ (ok /\ primeIn))
    /\ fallbackUnlockInFlight' = IF primeIn THEN FALSE ELSE fallbackUnlockInFlight
    /\ alarmEvent' = [AlarmEvent("clipSettled") EXCEPT
                          !.ok = ok,
                          !.reason = IF alarmIn THEN "alarm" ELSE "prime",
                          !.tiers = IF ~ok /\ alarmIn THEN playVibrationFallback ELSE {}]
    /\ UNCHANGED <<audioCtx, isAudioUnlocked, unlockInFlight, playResumes>>

\* The rejection callbacks of the play() promises that pause() aborted.
clipAbortDelivered ==
    LET aborted == Aborted(clipPromises)
        primeIn == HasBy(aborted, "prime")
        alarmIn == HasBy(aborted, "alarm") IN
    /\ aborted # <<>>
    /\ clipPromises' = Pending(clipPromises)
    /\ fallbackAudio' =
           [fallbackAudio EXCEPT !.volume = IF primeIn THEN OriginalVolume(aborted) ELSE @]
    /\ fallbackUnlockInFlight' = IF primeIn THEN FALSE ELSE fallbackUnlockInFlight
    /\ alarmEvent' = [AlarmEvent("clipAborted") EXCEPT
                          !.ok = FALSE,
                          !.reason = IF alarmIn THEN "alarm" ELSE "prime",
                          !.tiers = IF alarmIn THEN playVibrationFallback ELSE {}]
    /\ UNCHANGED <<audioCtx, isAudioUnlocked, unlockInFlight, fallbackAudioUnlocked,
                   playResumes>>

\* The clip played to its end.
clipEnded ==
    /\ fallbackAudio.playback = "playing"
    /\ fallbackAudio' = [fallbackAudio EXCEPT !.playback = "stopped"]
    /\ alarmEvent' = AlarmEvent("clipEnded")
    /\ UNCHANGED <<audioCtx, isAudioUnlocked, unlockInFlight, fallbackAudioUnlocked,
                   fallbackUnlockInFlight, playResumes, clipPromises>>

\* The platform suspends or interrupts a running context.
contextInterrupted ==
    /\ audioCtx = "running"
    /\ audioCtx' = "interrupted"
    /\ alarmEvent' = AlarmEvent("interrupted")
    /\ UNCHANGED <<isAudioUnlocked, unlockInFlight, fallbackAudio, fallbackAudioUnlocked,
                   fallbackUnlockInFlight, playResumes, clipPromises>>

----------------------------------------------------------------------------
(* Fallback repeat sequence and stop() of the alarm session. The variant   *)
(* of utils/sound.ts in the source tree plays the clip once and has no     *)
(* stop(); the repeat loop, the run identifier and stop() follow section   *)
(* 4.4 of the specification.                                               *)

FALLBACK_REPEATS == 3

RunEvent(op, id) == [op |-> op, runId |-> id, played |-> FALSE, exited |-> FALSE,
                     rejected |-> FALSE]

\* play() on the fallback path: a new run identifier and a new repeat loop.
playFallbackSequence ==
    /\ fallbackRunId' = fallbackRunId + 1
    /\ fallbackLoops' = fallbackLoops \cup {[runId |-> fallbackRunId + 1, played |-> 0]}
    /\ runClip' = 0
    /\ runEvent' = RunEvent("play", fallbackRunId + 1)
    /\ UNCHANGED <<vibrating, cancelledRun>>

\* stop(): invalidates the run, halts and rewinds the clip, cancels vibration.
stopAlarm ==
    /\ fallbackRunId' = fallbackRunId + 1
    /\ runClip' = 0
    /\ vibrating' = FALSE
    /\ cancelledRun' =
           IF \E l \in fallbackLoops :
                  l.runId = fallbackRunId /\ l.played \in 1..(FALLBACK_REPEATS - 1)
           THEN fallbackRunId ELSE cancelledRun
    /\ runEvent' = RunEvent("stop", fallbackRunId)
    /\ UNCHANGED fallbackLoops

\* One iteration boundary of the loop l: it exits when its run identifier is
\* no longer the current one or all repetitions were played; otherwise it
\* plays the clip once more, and when the platform rejects the playback it
\* vibrates (only if no repetition was played) and exits.
repeatStepUnchecked(l, ok) ==
    /\ runClip # l.runId
    /\ UNCHANGED <<fallbackRunId, cancelledRun>>
    /\ IF l.played = FALLBACK_REPEATS
       THEN /\ fallbackLoops' = fallbackLoops \ {l}
            /\ runEvent' = [RunEvent("repeat", l.runId) EXCEPT !.exited = TRUE]
            /\ UNCHANGED <<runClip, vibrating>>
       ELSE IF ok
       THEN /\ fallbackLoops' = (fallbackLoops \ {l}) \cup {[l EXCEPT !.played = @ + 1]}
            /\ runClip' = l.runId
            /\ runEvent' = [RunEvent("repeat", l.runId) EXCEPT !.played = TRUE]
            /\ UNCHANGED vibrating
       ELSE /\ fallbackLoops' = fallbackLoops \ {l}
            /\ vibrating' = IF l.played = 0 THEN TRUE ELSE vibrating
            /\ runEvent' = [RunEvent("repeat", l.runId) EXCEPT !.exited = TRUE,
                                !.rejected = TRUE]
            /\ UNCHANGED runClip

repeatStep(l, ok) ==
    /\ runClip # l.runId
    /\ UNCHANGED <<fallbackRunId, cancelledRun>>
    /\ IF l.runId # fallbackRunId \/ l.played = FALLBACK_REPEATS
       THEN /\ fallbackLoops' = fallbackLoops \ {l}
            /\ runEvent' = [RunEvent("repeat", l.runId) EXCEPT !.exited = TRUE]
            /\ UNCHANGED <<runClip, vibrating>>
       ELSE IF ok
       THEN /\ fallbackLoops' = (fallbackLoops \ {l}) \cup {[l EXCEPT !.played = @ + 1]}
            /\ runClip' = l.runId
            /\ runEvent' = [RunEvent("repeat", l.runId) EXCEPT !.played = TRUE]
            /\ UNCHANGED vibrating
       ELSE /\ fallbackLoops' = fallbackLoops \ {l}
            /\ vibrating' = IF l.played = 0 THEN TRUE ELSE vibrating
            /\ runEvent' = [RunEvent("repeat", l.runId) EXCEPT !.exited = TRUE,
                                !.rejected = TRUE]
            /\ UNCHANGED runClip

\* The repetition that is sounding ends; the vibration pattern ends.
runClipEnded ==
    /\ runClip # 0
    /\ runClip' = 0
    /\ runEvent' = RunEvent("clipEnded", runClip)
    /\ UNCHANGED <<fallbackRunId, fallbackLoops, vibrating, cancelledRun>>

vibrationEnded ==
    /\ vibrating
    /\ vibrating' = FALSE
    /\ runEvent' = RunEvent("vibrationEnded", fallbackRunId)
    /\ UNCHANGED <<fallbackRunId, fallbackLoops, runClip, cancelledRun>>

InitRun ==
    /\ fallbackRunId = 0
    /\ fallbackLoops = {}
    /\ runClip = 0
    /\ vibrating = FALSE
    /\ cancelledRun = 0
    /\ runEvent = RunEvent("load", 0)

----------------------------------------------------------------------------
(* Initial state: after the first render of the component *)

InitTimer ==
    /\ variant \in Variants
    /\ remainingSeconds = 0
    /\ state = "idle"
    /\ intervalRef = NULL
    /\ liveIntervals = {}
    /\ alarmFiredRef = FALSE
    /\ pendingEffects = IF variant = "effect"
                        THEN <<[state |-> "idle", remainingSeconds |-> 0]>>
                        ELSE <<>>
    /\ runTotal = -1
    /\ ticksThisRun = 0
    /\ alarmsThisRun = 0
    /\ donesThisRun = 0
    /\ resetSinceStart = FALSE
    /\ retargeted = FALSE
    /\ staleTick = FALSE
    /\ mounted = TRUE

InitDrag ==
    /\ draggingRef = FALSE
    /\ isDragging = FALSE
    /\ angleDeg = 0
    /\ dragMinutes = 0
    /\ totalSeconds = 0
    /\ isDialDragging = FALSE
    /\ dragPreviewMinutes = 0
    /\ pendingPreviews = <<[isDragging |-> FALSE, dragMinutes |-> 0]>>
    /\ gesture = "none"
    /\ commitsThisGesture = 0

InitConv ==
    /\ convAngle = 0
    /\ convMinutes = 0
    /\ convPrevAngle = 0
    /\ convPrevMinutes = 0
    /\ convDone = FALSE

\* The alarm session before its first use (module load of utils/sound.ts).
InitAlarmSession ==
    /\ audioCtx = "null"
    /\ isAudioUnlocked = FALSE
    /\ unlockInFlight = FALSE
    /\ fallbackAudio = [created |-> FALSE, volume |-> 1, playback |-> "stopped"]
    /\ fallbackAudioUnlocked = FALSE
    /\ fallbackUnlockInFlight = FALSE
    /\ playResumes = 0
    /\ clipPromises = <<>>
    /\ alarmEvent = AlarmEvent("load")

\* The platform of the engine and application specifications: a desktop
\* browser with Web Audio.
InitDesktop ==
    /\ likelyIOS = FALSE
    /\ hasAudioContextCtor = TRUE
    /\ canVibrate = FALSE

\* The dial as laid out at the first render, before any gesture.
InitDial ==
    /\ dialRect = RectAtRest
    /\ pressCenter = [ok |-> FALSE, cx |-> 0, cy |-> 0]
    /\ pressButton = "none"
    /\ samplePoint = [x |-> 0, y |-> 0]

\* The completion modal before any run: closed, its first effect pending.
InitModal ==
    /\ isCompletionDismissed = FALSE
    /\ completionAutoCloseTimerRef = FALSE
    /\ escapeListening = FALSE
    /\ pendingModalEffects = <<FALSE>>

\* utils/sound.ts at module load: installAudioUnlock() has not been called.
InitUnlock ==
    /\ audioUnlockInstalled = FALSE
    /\ unlockHandlers = 0
    /\ unlockEvent = [op |-> "load", primed |-> FALSE, removed |-> FALSE]

Init ==
    /\ InitTimer
    /\ InitDrag
    /\ InitConv
    /\ InitDesktop
    /\ InitAlarmSession
    /\ InitRun
    /\ InitDial
    /\ InitModal
    /\ InitUnlock
    /\ lastEvent = [op |-> "mount", arg |-> 0, onDial |-> TRUE, wasDragging |-> FALSE,
                    committed |-> 0, previewBefore |-> 0, stateBefore |-> "idle"]

----------------------------------------------------------------------------
(* SpecTimer: useTimer on its own, driven through start, reset, the host's *)
(* interval and React's effect flush.                                      *)

Start ==
    \E n \in 0..MaxTotal :
        /\ mounted
        /\ start(n)
        /\ lastEvent' = Event("start", n)
        /\ UNCHANGED <<dragVars, dragHist, totalSeconds, previewVars, detachedVars>>

Reset ==
    /\ mounted
    /\ reset
    /\ lastEvent' = Event("reset", 0)
    /\ UNCHANGED <<dragVars, dragHist, totalSeconds, previewVars, detachedVars>>

Tick ==
    \E id \in liveIntervals :
        /\ tick(id)
        /\ lastEvent' = Event("tick", id)
        /\ UNCHANGED <<dragVars, dragHist, totalSeconds, previewVars, detachedVars>>

CompletionEffect ==
    /\ completionEffect
    /\ lastEvent' = Event("effect", 0)
    /\ UNCHANGED <<dragVars, dragHist, totalSeconds, previewVars, detachedVars>>

\* The host tears the component down.
Unmount ==
    /\ unmount
    /\ lastEvent' = Event("unmount", 0)
    /\ UNCHANGED <<dragVars, dragHist, totalSeconds, previewVars, detachedVars>>

NextTimer == Start \/ Reset \/ Tick \/ CompletionEffect \/ Unmount

SpecTimer == Init /\ [][NextTimer]_vars

----------------------------------------------------------------------------
(* SpecTimerLive: useTimer while the component stays mounted. The host     *)
(* keeps firing a live interval and React keeps flushing scheduled effects.*)

NextTimerLive == Start \/ Reset \/ Tick \/ CompletionEffect

SpecTimerLive ==
    /\ Init
    /\ [][NextTimerLive]_vars
    /\ WF_vars(Tick)
    /\ WF_vars(CompletionEffect)

----------------------------------------------------------------------------
(* Spec: the application. Gestures reach the drag controller, its commit   *)
(* reaches the engine through the coordinator, the host fires the interval *)
(* and React flushes the completion effect.                                *)

MouseDown ==
    \E a \in SampleAngles : handleStart("gestureStart", a) /\ UNCHANGED detachedVars

MouseMove ==
    \E a \in SampleAngles : handleMoveEvent("gestureMove", a) /\ UNCHANGED detachedVars

MouseUp ==
    \E a \in SampleAngles, onDial \in BOOLEAN :
        handleEnd("gestureEnd", a, onDial) /\ UNCHANGED detachedVars

TouchStart ==
    \E a \in SampleAngles : handleStart("gestureStart", a) /\ UNCHANGED detachedVars

TouchMove ==
    \E a \in SampleAngles : handleMoveEvent("gestureMove", a) /\ UNCHANGED detachedVars

TouchEnd ==
    \E a \in SampleAngles, onDial \in BOOLEAN :
        handleEnd("gestureEnd", a, onDial) /\ UNCHANGED detachedVars

ResetClick == handleReset /\ UNCHANGED detachedVars

\* React flushes the onDragPreview effect of AnalogDial.
PreviewEffect == handleDragPreview /\ UNCHANGED detachedVars

\* The interval callback, followed for MaxTicks callbacks of a run, and for
\* MaxLongRunTicks callbacks of a run that cannot end within MaxTicks.
IntervalTick ==
    /\ ticksThisRun < (IF runTotal <= MaxTicks THEN MaxTicks ELSE MaxLongRunTicks)
    /\ Tick

Next ==
    \/ MouseDown \/ MouseMove \/ MouseUp
    \/ TouchStart \/ TouchMove \/ TouchEnd
    \/ ResetClick \/ PreviewEffect \/ IntervalTick \/ CompletionEffect

Spec == Init /\ [][Next]_vars

----------------------------------------------------------------------------
(* SpecDial: the drag controller driven by pointer positions. A press      *)
(* reaches the listeners of the dial element only on its surface; moves    *)
(* and releases reach the listeners of the window wherever they happen;    *)
(* the layout may move or collapse the dial at any time. The commit of a   *)
(* release starts the engine; its interval is not followed here.           *)

dialFrame == <<convVars, alarmEnv, alarmVars, runVars, modalVars, unlockVars>>

\* The pointer is on the surface of the dial.
OnDial(p) ==
    /\ dialRect.width > 0
    /\ dialRect.height > 0
    /\ p.x >= dialRect.left /\ p.x <= dialRect.left + dialRect.width
    /\ p.y >= dialRect.top /\ p.y <= dialRect.top + dialRect.height

\* mousedown (MouseEvent.button is 0 for the primary button) or touchstart
\* on the dial element.
DialPress ==
    \E p \in SamplePoints, button \in {"primary", "secondary", "touch"} :
        /\ OnDial(p)
        /\ handleStart("gestureStart", sampleAngle(p))
        /\ pressCenter' = IF draggingRef THEN pressCenter ELSE getCenter
        /\ pressButton' = IF draggingRef THEN pressButton ELSE button
        /\ samplePoint' = p
        /\ UNCHANGED <<dialRect, dialFrame>>

\* mousemove / touchmove on the window.
DialMove ==
    \E p \in SamplePoints :
        /\ handleMoveEvent("gestureMove", sampleAngle(p))
        /\ samplePoint' = p
        /\ UNCHANGED <<dialRect, pressCenter, pressButton, dialFrame>>

\* mouseup / touchend on the window; the history of the press ends with it.
DialEnd ==
    \E p \in SamplePoints :
        /\ handleEnd("gestureEnd", sampleAngle(p), OnDial(p))
        /\ samplePoint' = p
        /\ pressCenter' = [ok |-> FALSE, cx |-> 0, cy |-> 0]
        /\ pressButton' = "none"
        /\ UNCHANGED <<dialRect, dialFrame>>

\* The layout moves or collapses the dial element.
LayoutShift ==
    \E r \in DialRects \ {dialRect} :
        /\ dialRect' = r
        /\ lastEvent' = Event("layout", 0)
        /\ UNCHANGED <<timerVars, timerHist, dragVars, dragHist, totalSeconds,
                       previewVars, pressCenter, pressButton, samplePoint, dialFrame>>

NextDial ==
    \/ DialPress \/ DialMove \/ DialEnd
    \/ LayoutShift \/ PreviewEffect \/ CompletionEffect

SpecDial == Init /\ [][NextDial]_vars

----------------------------------------------------------------------------
(* SpecConv: angleToMinutes applied to every pair of whole-degree angles   *)
(* convPrevAngle <= convAngle of [0, 360].                                 *)

InitConvInputs ==
    /\ InitTimer
    /\ InitDrag
    /\ variant = "effect"
    /\ convAngle \in 0..FULL_TURN
    /\ convPrevAngle \in 0..convAngle
    /\ convMinutes = 0
    /\ convPrevMinutes = 0
    /\ convDone = FALSE
    /\ InitDesktop
    /\ InitAlarmSession
    /\ InitRun
    /\ InitDial
    /\ InitModal
    /\ InitUnlock
    /\ lastEvent = [op |-> "mount", arg |-> 0, onDial |-> TRUE, wasDragging |-> FALSE,
                    committed |-> 0, previewBefore |-> 0, stateBefore |-> "idle"]

Convert ==
    /\ ~convDone
    /\ convMinutes' = angleToMinutes(convAngle)
    /\ convPrevMinutes' = angleToMinutes(convPrevAngle)
    /\ convDone' = TRUE
    /\ UNCHANGED <<convAngle, convPrevAngle, timerVars, timerHist, dragVars, dragHist,
                   totalSeconds, previewVars, lastEvent, alarmEnv, alarmVars, runVars,
                   dialVars, modalVars, unlockVars>>

SpecConv == InitConvInputs /\ [][Convert]_vars

----------------------------------------------------------------------------
(* SpecAlarm: the alarm session of utils/sound.ts on every platform, with  *)
(* primeAlarmAudio and playAlarm called at any time and their promises     *)
(* settled by the host in any order.                                       *)

InitAlarm ==
    /\ InitTimer
    /\ InitDrag
    /\ InitConv
    /\ variant = "effect"
    /\ likelyIOS \in BOOLEAN
    /\ hasAudioContextCtor \in BOOLEAN
    /\ canVibrate \in BOOLEAN
    /\ InitAlarmSession
    /\ InitRun
    /\ InitDial
    /\ InitModal
    /\ InitUnlock
    /\ lastEvent = [op |-> "mount", arg |-> 0, onDial |-> TRUE, wasDragging |-> FALSE,
                    committed |-> 0, previewBefore |-> 0, stateBefore |-> "idle"]

alarmFrame == <<timerVars, timerHist, dragVars, dragHist, totalSeconds, previewVars, lastEvent,
                convVars, alarmEnv, runVars, dialVars, modalVars, unlockVars>>

PrimeAlarmAudio ==
    /\ Len(clipPromises) < MaxClipPromises
    /\ primeAlarmAudio
    /\ UNCHANGED alarmFrame

PlayAlarm ==
    /\ Len(clipPromises) < MaxClipPromises
    /\ playResumes < MaxPlayResumes
    /\ playAlarm
    /\ UNCHANGED alarmFrame

UnlockResumeSettled ==
    \E ok \in BOOLEAN : unlockResumeSettled(ok) /\ UNCHANGED alarmFrame

PlayResumeSettled ==
    /\ Len(clipPromises) < MaxClipPromises
    /\ \E ok \in BOOLEAN : playResumeSettled(ok) /\ UNCHANGED alarmFrame

ClipPlaySettled ==
    \E ok \in BOOLEAN : clipPlaySettled(ok) /\ UNCHANGED alarmFrame

ClipAbortDelivered == clipAbortDelivered /\ UNCHANGED alarmFrame

ClipEnded == clipEnded /\ UNCHANGED alarmFrame

ContextInterrupted == contextInterrupted /\ UNCHANGED alarmFrame

NextAlarm ==
    \/ PrimeAlarmAudio \/ PlayAlarm \/ UnlockResumeSettled \/ PlayResumeSettled
    \/ ClipPlaySettled \/ ClipAbortDelivered \/ ClipEnded \/ ContextInterrupted

SpecAlarm == InitAlarm /\ [][NextAlarm]_vars

----------------------------------------------------------------------------
(* SpecUnlock: the alarm session with installAudioUnlock() called at any   *)
(* time and user gestures arriving at any time. Gestures keep arriving    *)
(* (whenever the model's cap on pending promises lets one in) and the      *)
(* callbacks of the clip's play() promises are run by the host.            *)

installAudioUnlockUnguarded ==
    /\ audioUnlockInstalled' = TRUE
    /\ unlockHandlers' = unlockHandlers + 1
    /\ unlockEvent' = [op |-> "install", primed |-> FALSE, removed |-> FALSE]

\* installAudioUnlock(): one unlockHandler on six window events, once.
installAudioUnlock ==
    /\ audioUnlockInstalled' = TRUE
    /\ unlockHandlers' = IF audioUnlockInstalled THEN unlockHandlers ELSE unlockHandlers + 1
    /\ unlockEvent' = [op |-> "install", primed |-> FALSE, removed |-> FALSE]

\* A pointer, touch or key event on the window. unlockHandler calls
\* primeAlarmAudio() and removes itself from the six events if
\* isAudioUnlocked is set after the call; a prime that throws ends it.
unlockHandler ==
    IF unlockHandlers = 0
    THEN /\ unlockEvent' = [op |-> "gesture", primed |-> FALSE, removed |-> FALSE]
         /\ UNCHANGED <<alarmVars, audioUnlockInstalled, unlockHandlers>>
    ELSE /\ primeAlarmAudio
         /\ unlockHandlers' =
                IF ~alarmEvent'.escaped /\ isAudioUnlocked' THEN 0 ELSE unlockHandlers
         /\ unlockEvent' = [op |-> "gesture", primed |-> TRUE,
                            removed |-> unlockHandlers' = 0]
         /\ UNCHANGED audioUnlockInstalled

unlockFrame == <<timerVars, timerHist, dragVars, dragHist, totalSeconds, previewVars,
                 lastEvent, convVars, alarmEnv, runVars, dialVars, modalVars>>

InstallAudioUnlock ==
    /\ installAudioUnlock
    /\ UNCHANGED <<alarmVars, unlockFrame>>

Gesture ==
    /\ Len(clipPromises) < MaxClipPromises
    /\ unlockHandler
    /\ UNCHANGED unlockFrame

NextUnlock ==
    \/ InstallAudioUnlock \/ Gesture
    \/ PrimeAlarmAudio \/ PlayAlarm \/ UnlockResumeSettled \/ PlayResumeSettled
    \/ ClipPlaySettled \/ ClipAbortDelivered \/ ClipEnded \/ ContextInterrupted

SpecUnlock ==
    /\ InitAlarm
    /\ [][NextUnlock]_vars
    /\ SF_vars(Gesture)
    /\ WF_vars(ClipPlaySettled)
    /\ WF_vars(ClipAbortDelivered)

----------------------------------------------------------------------------
(* SpecStop: the fallback repeat sequence with play() and stop() called at *)
(* any time and the loop iterations run by the host in any order.          *)

runFrame == <<timerVars, timerHist, dragVars, dragHist, totalSeconds, previewVars, lastEvent,
              convVars, alarmEnv, alarmVars, dialVars, modalVars, unlockVars>>

PlayFallbackSequence ==
    /\ fallbackRunId < MaxRuns
    /\ playFallbackSequence
    /\ UNCHANGED runFrame

StopAlarm ==
    /\ fallbackRunId < MaxRuns
    /\ stopAlarm
    /\ UNCHANGED runFrame

RepeatStep ==
    \E l \in fallbackLoops, ok \in BOOLEAN : repeatStep(l, ok) /\ UNCHANGED runFrame

RunClipEnded == runClipEnded /\ UNCHANGED runFrame

VibrationEnded == vibrationEnded /\ UNCHANGED runFrame

NextStop ==
    PlayFallbackSequence \/ StopAlarm \/ RepeatStep \/ RunClipEnded \/ VibrationEnded

SpecStop == Init /\ [][NextStop]_vars

----------------------------------------------------------------------------
(* SpecModal: the coordinator variant with the completion modal (the App   *)
(* kept in unnamed/part_001). A commit starts a one-minute run, the host   *)
(* fires the interval, React flushes the completion and the modal effects, *)
(* and the modal is dismissed by its button, by Escape or by its timeout.  *)

ModalMinutes == {1}

\* isCompletionModalOpen, derived at each render.
isCompletionModalOpen == state = "done" /\ ~isCompletionDismissed

\* The render after a handler: the modal effect is scheduled when its
\* dependency isCompletionModalOpen changed.
RenderModal(newState, newDismissed) ==
    LET open == newState = "done" /\ ~newDismissed IN
    IF open # isCompletionModalOpen
    THEN Append(pendingModalEffects, open)
    ELSE pendingModalEffects

PreviousModalEffectsFlushed == Len(pendingModalEffects) <= 1

\* closeCompletionModal: clearCompletionTimer(); setIsCompletionDismissed(true).
closeCompletionModal ==
    /\ completionAutoCloseTimerRef' = FALSE
    /\ isCompletionDismissed' = TRUE

modalFrame == <<convVars, alarmEnv, alarmVars, runVars, dialVars, unlockVars>>

dismissAlsoResets(op) ==
    /\ closeCompletionModal
    /\ reset
    /\ totalSeconds' = 0
    /\ pendingModalEffects' = RenderModal("idle", TRUE)
    /\ lastEvent' = Event(op, 0)
    /\ UNCHANGED <<escapeListening, dragVars, dragHist, previewVars, modalFrame>>

\* A dismiss action: the button and Escape call closeCompletionModal, the
\* timeout callback makes the same two assignments.
dismiss(op) ==
    /\ PreviousModalEffectsFlushed
    /\ closeCompletionModal
    /\ pendingModalEffects' = RenderModal(state, TRUE)
    /\ lastEvent' = Event(op, 0)
    /\ UNCHANGED <<escapeListening, timerVars, timerHist, totalSeconds, dragVars, dragHist,
                   previewVars, modalFrame>>

\* The OK button, rendered while the modal is open.
CloseClick == isCompletionModalOpen /\ dismiss("dismissButton")

\* The keydown listener of the modal effect, for the Escape key.
EscapeKey == escapeListening /\ dismiss("dismissEscape")

\* The callback of the 4 s timeout armed by the modal effect.
AutoClose == completionAutoCloseTimerRef /\ dismiss("dismissAuto")

\* The modal effect: the cleanup of its previous run, then its body with the
\* isCompletionModalOpen of its render.
ModalEffect ==
    /\ pendingModalEffects # <<>>
    /\ completionAutoCloseTimerRef' = Head(pendingModalEffects)
    /\ escapeListening' = Head(pendingModalEffects)
    /\ pendingModalEffects' = Tail(pendingModalEffects)
    /\ lastEvent' = Event("modalEffect", 0)
    /\ UNCHANGED <<isCompletionDismissed, timerVars, timerHist, totalSeconds, dragVars,
                   dragHist, previewVars, modalFrame>>

\* handleDragEnd of this variant: setIsCompletionDismissed(false) first.
ModalCommit ==
    \E minutes \in ModalMinutes :
        /\ PreviousModalEffectsFlushed
        /\ isCompletionDismissed' = FALSE
        /\ handleDragEnd(minutes)
        /\ pendingModalEffects' = RenderModal("running", FALSE)
        /\ lastEvent' = Event("commit", minutes)
        /\ UNCHANGED <<completionAutoCloseTimerRef, escapeListening, dragVars, dragHist,
                       previewVars, modalFrame>>

\* handleReset of this variant: closeCompletionModal() first.
ModalReset ==
    /\ PreviousModalEffectsFlushed
    /\ closeCompletionModal
    /\ handleReset
    /\ pendingModalEffects' = RenderModal("idle", TRUE)
    /\ UNCHANGED <<escapeListening, modalFrame>>

ModalTick ==
    \E id \in liveIntervals :
        /\ PreviousModalEffectsFlushed
        /\ ticksThisRun < MaxTicks
        /\ tick(id)
        /\ pendingModalEffects' = RenderModal(state', isCompletionDismissed)
        /\ lastEvent' = Event("tick", id)
        /\ UNCHANGED <<isCompletionDismissed, completionAutoCloseTimerRef, escapeListening,
                       totalSeconds, dragVars, dragHist, previewVars, modalFrame>>

ModalCompletionEffect ==
    /\ completionEffect
    /\ pendingModalEffects' = RenderModal(state', isCompletionDismissed)
    /\ lastEvent' = Event("effect", 0)
    /\ UNCHANGED <<isCompletionDismissed, completionAutoCloseTimerRef, escapeListening,
                   totalSeconds, dragVars, dragHist, previewVars, modalFrame>>

NextModal ==
    \/ ModalCommit \/ ModalReset \/ ModalTick \/ ModalCompletionEffect
    \/ ModalEffect \/ CloseClick \/ EscapeKey \/ AutoClose

SpecModal == Init /\ [][NextModal]_vars

----------------------------------------------------------------------------
(* Properties of the countdown engine, checked under SpecTimer *)

\* The run started by the last start() has not been reset since.
RunUndisturbed == runTotal >= 1 /\ ~resetSinceStart

\* No completion effect is still to run.
EffectsSettled == pendingEffects = <<>>

\* C1: start(N), N >= 1, followed by N ticks with no start or reset in
\* between counts remainingSeconds down from N to 0 one per tick, and once the
\* N-th tick (and the completion check it triggers) has run the state is done
\* and playAlarm was called exactly once.
C1_StartThenTicksReachDone ==
    RunUndisturbed =>
        /\ ticksThisRun <= runTotal => remainingSeconds = runTotal - ticksThisRun
        /\ (ticksThisRun = runTotal /\ EffectsSettled) =>
               (state = "done" /\ remainingSeconds = 0 /\ alarmsThisRun = 1)

\* C2: between two consecutive start() calls playAlarm is called at most once
\* and the state enters done at most once, exactly once when it is done.
C2_AlarmAtMostOncePerRun ==
    /\ alarmsThisRun <= 1
    /\ donesThisRun <= 1
    /\ state = "done" => donesThisRun = 1

\* A completed run whose completion check has run again on the update to done.
C2_Witness ==
    /\ state = "done"
    /\ variant = "effect"
    /\ lastEvent.op = "effect"
    /\ EffectsSettled
    /\ alarmsThisRun = 1
    /\ donesThisRun = 1

\* C3: start(M) called while running sets remainingSeconds to M, re-arms the
\* guard and leaves the new schedule as the only one; no callback of another
\* schedule runs afterwards, and the run is done after exactly M ticks, not
\* before.
C3_RetargetRunsNewScheduleOnly ==
    (retargeted /\ runTotal >= 1) =>
        /\ ~staleTick
        /\ lastEvent.op = "start" =>
               (/\ remainingSeconds = runTotal
                /\ ~alarmFiredRef
                /\ liveIntervals = {intervalRef})
        /\ (~resetSinceStart /\ ticksThisRun < runTotal) => state = "running"
        /\ (~resetSinceStart /\ ticksThisRun = runTotal /\ EffectsSettled) =>
               (state = "done" /\ remainingSeconds = 0)

\* C4: right after reset(), from any state, remainingSeconds is 0, the state
\* is idle, the one-shot guard is cleared and no tick schedule is live.
C4_ResetYieldsIdle ==
    lastEvent.op = "reset" =>
        /\ remainingSeconds = 0
        /\ state = "idle"
        /\ ~alarmFiredRef
        /\ intervalRef = NULL
        /\ liveIntervals = {}

\* reset() was called while a countdown was running.
C4_Witness ==
    /\ lastEvent.op = "reset"
    /\ lastEvent.stateBefore = "running"
    /\ ticksThisRun >= 1

----------------------------------------------------------------------------
(* Properties of the drag controller and the coordinator, checked under Spec *)

\* C5: a gesture that has ended emitted exactly one commit, and the release
\* that ended it committed between 1 and 60 minutes, on or off the dial.
C5_OneCommitPerGesture ==
    /\ commitsThisGesture <= 1
    /\ gesture = "ended" => commitsThisGesture = 1
    /\ (lastEvent.op = "gestureEnd" /\ lastEvent.wasDragging) =>
           (lastEvent.committed >= 1 /\ lastEvent.committed <= 60)

\* A gesture ended by a release off the dial surface.
C5_Witness ==
    /\ gesture = "ended"
    /\ lastEvent.op = "gestureEnd"
    /\ lastEvent.wasDragging
    /\ ~lastEvent.onDial
    /\ commitsThisGesture = 1

\* C6: a move or a release that arrives while no drag is active commits
\* nothing, changes neither the drag session nor the engine, and the drag
\* session stays inactive and zero.
C6_IdleMoveOrReleaseEmitsNothing ==
    [][(~draggingRef /\ lastEvent'.op \in {"gestureMove", "gestureEnd"}) =>
           /\ lastEvent'.committed = 0
           /\ UNCHANGED <<dragVars, commitsThisGesture, totalSeconds, timerVars>>
           /\ ~isDragging'
           /\ angleDeg' = 0
           /\ dragMinutes' = 0]_vars

\* A move arrived after a gesture had ended.
C6_Witness ==
    /\ lastEvent.op = "gestureMove"
    /\ ~lastEvent.wasDragging
    /\ gesture = "ended"

\* C7: a release at angle a # 0 commits round(a / 360 * 60) clamped to
\* [1, 60], whatever the last preview was.
C7_CommitFromReleaseAngle ==
    (lastEvent.op = "gestureEnd" /\ lastEvent.wasDragging /\ lastEvent.arg # 0) =>
        \E r \in 0..60 :
            /\ 12 * r - 6 <= 2 * lastEvent.arg
            /\ 2 * lastEvent.arg < 12 * r + 6
            /\ lastEvent.committed = (IF r < 1 THEN 1 ELSE r)

\* A release at 90 degrees committed 15 minutes while the preview showed
\* another value.
C7_Witness ==
    /\ lastEvent.op = "gestureEnd"
    /\ lastEvent.wasDragging
    /\ lastEvent.arg = 90
    /\ lastEvent.committed = 15
    /\ lastEvent.previewBefore # 15

\* C8: a sample at angle 0 counts as 360: previewed while dragging it shows
\* 60 minutes, and a release at angle 0 commits 60 minutes.
C8_ZeroAngleIsFullCircle ==
    /\ (lastEvent.op \in {"gestureStart", "gestureMove"} /\ draggingRef
            /\ lastEvent.arg = 0) =>
           (angleDeg = 360 /\ dragMinutes = 60)
    /\ (lastEvent.op = "gestureEnd" /\ lastEvent.wasDragging /\ lastEvent.arg = 0) =>
           lastEvent.committed = 60

\* A release at angle 0 after a preview of another angle.
C8_Witness ==
    /\ lastEvent.op = "gestureEnd"
    /\ lastEvent.wasDragging
    /\ lastEvent.arg = 0
    /\ lastEvent.committed = 60
    /\ lastEvent.previewBefore = 15

\* C10: right after a commit of m minutes the engine was started with m * 60:
\* the state is running and remainingSeconds = totalSeconds = m * 60, whatever
\* the state was before.
C10_CommitStartsEngine ==
    (lastEvent.op = "gestureEnd" /\ lastEvent.committed # 0) =>
        /\ state = "running"
        /\ runTotal = lastEvent.committed * 60
        /\ remainingSeconds = lastEvent.committed * 60
        /\ totalSeconds = lastEvent.committed * 60

\* A commit that found the engine done.
C10_Witness ==
    /\ lastEvent.op = "gestureEnd"
    /\ lastEvent.committed # 0
    /\ lastEvent.stateBefore = "done"

----------------------------------------------------------------------------
(* Properties of the conversion, checked under SpecConv *)

\* C9 as stated: for a in [0, 360) angleToMinutes(a) is in [1, 60] and
\* non-decreasing in a, and angleToMinutes(0) = angleToMinutes(360) = 60.
C9_AsStated ==
    convDone =>
        /\ convAngle < 360 =>
               (/\ convMinutes >= 1
                /\ convMinutes <= 60
                /\ convPrevMinutes <= convMinutes)
        /\ convAngle = 0 => convMinutes = 60
        /\ convAngle = 360 => convMinutes = 60

\* C9 amended: for a in [0, 360] angleToMinutes(a) is in [1, 60] and
\* non-decreasing in a; angleToMinutes(360) = 60 and angleToMinutes(0) = 1.
C9_RangeAndMonotone ==
    convDone =>
        /\ convMinutes >= 1
        /\ convMinutes <= 60
        /\ convPrevMinutes <= convMinutes
        /\ convAngle = 0 => convMinutes = 1
        /\ convAngle = 360 => convMinutes = 60

\* The two ends of the dial were converted: 0 to 1 minute, 360 to 60.
C9_Witness ==
    /\ convDone
    /\ convPrevAngle = 0
    /\ convAngle = 360
    /\ convPrevMinutes = 1
    /\ convMinutes = 60

----------------------------------------------------------------------------
(* Properties of the alarm session, checked under SpecAlarm *)

\* C11 as stated: the clip is started only by a play() on a platform flagged
\* unreliable or without an audio output, or when the resume of a blocked
\* output failed; vibration is triggered only when a play() of the clip
\* started for the alarm was rejected; when the resume succeeds the
\* synthesized pattern is played and no lower tier runs.
C11_AsStated ==
    /\ "clip" \in alarmEvent.tiers =>
           \/ alarmEvent.op = "play" /\ (likelyIOS \/ audioCtx = "null")
           \/ alarmEvent.op = "playResume" /\ ~alarmEvent.ok
    /\ "vibration" \in alarmEvent.tiers =>
           /\ alarmEvent.op \in {"clipSettled", "clipAborted"}
           /\ alarmEvent.reason = "alarm"
           /\ ~alarmEvent.ok
    /\ (alarmEvent.op = "playResume" /\ alarmEvent.ok) => alarmEvent.tiers = {"synth"}

\* C11 amended: as above, except that the clip is also started when the
\* resume succeeded and scheduling the pattern then threw; the synthesized
\* pattern is played only on an output that is running, never on a platform
\* flagged unreliable, and a failed resume always starts the clip.
C11_TiersInOrder ==
    /\ "clip" \in alarmEvent.tiers =>
           \/ alarmEvent.op = "play" /\ (likelyIOS \/ audioCtx = "null")
           \/ alarmEvent.op = "playResume" /\ ~alarmEvent.ok
           \/ alarmEvent.op = "playResume" /\ alarmEvent.reason = "scheduleThrew"
    /\ "vibration" \in alarmEvent.tiers =>
           /\ alarmEvent.op \in {"clipSettled", "clipAborted"}
           /\ alarmEvent.reason = "alarm"
           /\ ~alarmEvent.ok
           /\ canVibrate
    /\ (alarmEvent.op = "playResume" /\ alarmEvent.ok) =>
           \/ alarmEvent.tiers = {"synth"}
           \/ alarmEvent.tiers = {"clip"} /\ alarmEvent.reason = "scheduleThrew"
    /\ (alarmEvent.op = "playResume" /\ ~alarmEvent.ok) => alarmEvent.tiers = {"clip"}
    /\ "synth" \in alarmEvent.tiers =>
           /\ alarmEvent.op \in {"play", "playResume"}
           /\ alarmEvent.tiers = {"synth"}
           /\ ~likelyIOS
           /\ audioCtx = "running"

\* The resume of a blocked output failed and the clip was started, while an
\* earlier play() promise of the clip was still pending.
C11_Witness ==
    /\ alarmEvent.op = "playResume"
    /\ ~alarmEvent.ok
    /\ alarmEvent.tiers = {"clip"}
    /\ fallbackAudio.playback = "starting"
    /\ Aborted(clipPromises) # <<>>

\* C12: no failure escapes play() or prime(): whichever step fails, the call
\* returns normally to its caller.
C12_NoFailureEscapes ==
    alarmEvent.op \in {"prime", "play"} => ~alarmEvent.escaped


\* C13: for each of the two resources a prime() made while an unlock attempt
\* is in flight or after the resource is unlocked starts no new attempt and
\* leaves the resource as it was; a prime() that finds neither starts one;
\* a failed attempt leaves the unlocked flag as it was and clears the
\* in-flight marker.
C13_PrimeIdempotent ==
    [][/\ (alarmEvent'.op = "prime" /\ (isAudioUnlocked \/ unlockInFlight)) =>
              UNCHANGED <<isAudioUnlocked, unlockInFlight>>
       /\ (alarmEvent'.op = "prime" /\ (fallbackAudioUnlocked \/ fallbackUnlockInFlight)) =>
              /\ UNCHANGED <<fallbackAudioUnlocked, fallbackUnlockInFlight, clipPromises>>
              /\ fallbackAudio'.volume = fallbackAudio.volume
              /\ fallbackAudio'.playback = fallbackAudio.playback
       /\ (alarmEvent'.op = "prime" /\ ~alarmEvent'.escaped
               /\ ~fallbackAudioUnlocked /\ ~fallbackUnlockInFlight) =>
              (fallbackUnlockInFlight' /\ Len(clipPromises') = Len(clipPromises) + 1)
       /\ (alarmEvent'.op = "prime" /\ ~alarmEvent'.escaped /\ audioCtx' # "null"
               /\ ~isAudioUnlocked /\ ~unlockInFlight) =>
              (unlockInFlight' \/ isAudioUnlocked')
       /\ (alarmEvent'.op = "unlockResume" /\ ~alarmEvent'.ok) =>
              (~unlockInFlight' /\ isAudioUnlocked' = isAudioUnlocked)
       /\ (alarmEvent'.op \in {"clipSettled", "clipAborted"} /\ ~alarmEvent'.ok
               /\ fallbackUnlockInFlight /\ HasBy(clipPromises, "prime")
               /\ ~HasBy(clipPromises', "prime")) =>
              (~fallbackUnlockInFlight' /\ fallbackAudioUnlocked' = fallbackAudioUnlocked)
      ]_vars

\* A prime() retried after the trial playback of the clip was refused, while
\* the resume of the synthesized output was still in flight.
C13_Witness ==
    /\ alarmEvent.op = "prime"
    /\ alarmEvent.busy = {"synth"}
    /\ alarmEvent.attempts = {"clip"}
    /\ unlockInFlight
    /\ fallbackUnlockInFlight
    /\ ~fallbackAudioUnlocked

\* C20 as stated: once the synthesized output or the fallback clip is marked
\* unlocked it is never marked locked again, and only a successful prime()
\* (the call or the callbacks of its attempts) marks it unlocked.
C20_AsStated ==
    [][/\ isAudioUnlocked => isAudioUnlocked'
       /\ fallbackAudioUnlocked => fallbackAudioUnlocked'
       /\ (~isAudioUnlocked /\ isAudioUnlocked') =>
              (alarmEvent'.op \in {"prime", "unlockResume"} /\ alarmEvent'.ok)
       /\ (~fallbackAudioUnlocked /\ fallbackAudioUnlocked') =>
              (alarmEvent'.op = "clipSettled" /\ alarmEvent'.ok /\ fallbackUnlockInFlight)
      ]_vars

\* C20 amended: the unlock state is one-way, the clip is marked unlocked only
\* by a successful prime(), and the synthesized output only by a successful
\* prime() or by a successful resume inside play().
C20_UnlockOneWay ==
    [][/\ isAudioUnlocked => isAudioUnlocked'
       /\ fallbackAudioUnlocked => fallbackAudioUnlocked'
       /\ (~isAudioUnlocked /\ isAudioUnlocked') =>
              (/\ alarmEvent'.op \in {"prime", "unlockResume", "playResume"}
               /\ alarmEvent'.ok
               /\ audioCtx' = "running")
       /\ (~fallbackAudioUnlocked /\ fallbackAudioUnlocked') =>
              (alarmEvent'.op = "clipSettled" /\ alarmEvent'.ok /\ fallbackUnlockInFlight)
      ]_vars

\* The resume of a prime() succeeded with both resources then unlocked, while
\* a resume started by play() was still pending.
C20_Witness ==
    /\ alarmEvent.op = "unlockResume"
    /\ alarmEvent.ok
    /\ isAudioUnlocked
    /\ fallbackAudioUnlocked
    /\ playResumes > 0

----------------------------------------------------------------------------
(* Properties of the fallback repeat sequence, checked under SpecStop *)

----------------------------------------------------------------------------
(* Properties of the display and of reset, checked under Spec *)

\* C15: the displayed label is RUN if the engine is running, END if it is
\* done, SET if it is idle with a committed totalSeconds > 0, FOC otherwise.
C15_LabelFollowsState ==
    /\ state = "running" => label = "RUN"
    /\ state = "done" => label = "END"
    /\ (state = "idle" /\ totalSeconds > 0) => label = "SET"
    /\ (state = "idle" /\ totalSeconds <= 0) => label = "FOC"

\* A run of one minute has counted down to done and END is displayed.
C15_Witness ==
    /\ state = "done"
    /\ totalSeconds = 60
    /\ remainingSeconds = 0
    /\ label = "END"

\* The two decimal digits of n, for n below 100.
TwoDigits(n) ==
    LET digit == <<"0", "1", "2", "3", "4", "5", "6", "7", "8", "9">> IN
    digit[(n \div 10) + 1] \o digit[(n % 10) + 1]

\* C16: while the coordinator's isDragging flag is set the minutes text is the
\* preview minutes and the seconds text is 00; otherwise both come from
\* remainingSeconds; the placeholder is shown exactly when the engine is idle,
\* totalSeconds = 0 and the flag is not set.
C16_DisplayedTime ==
    /\ displayMins = "--" <=> (state = "idle" /\ totalSeconds = 0 /\ ~isDialDragging)
    /\ displaySecs = "--" <=> (state = "idle" /\ totalSeconds = 0 /\ ~isDialDragging)
    /\ isDialDragging =>
           (displayMins = TwoDigits(dragPreviewMinutes) /\ displaySecs = "00")
    /\ (~isDialDragging /\ ~(state = "idle" /\ totalSeconds = 0)) =>
           \E m \in 0..60, sec \in 0..59 :
               /\ remainingSeconds = 60 * m + sec
               /\ displayMins = TwoDigits(m)
               /\ displaySecs = TwoDigits(sec)

\* A preview of 15 minutes is displayed over a countdown that shows another
\* time.
C16_Witness ==
    /\ isDialDragging
    /\ dragPreviewMinutes = 15
    /\ state = "running"
    /\ remainingSeconds = 59
    /\ displayMins = "15"
    /\ displaySecs = "00"

\* C17: right after a reset request the engine is idle with remainingSeconds
\* = 0 and no schedule, totalSeconds is 0, the coordinator's isDragging flag
\* is false and its preview minutes are 0.
C17_ResetClearsPreview ==
    lastEvent.op = "resetClick" =>
        /\ state = "idle"
        /\ remainingSeconds = 0
        /\ liveIntervals = {}
        /\ totalSeconds = 0
        /\ ~isDialDragging
        /\ dragPreviewMinutes = 0

\* A reset requested while a drag was previewing 15 minutes over a running
\* countdown.
C17_Witness ==
    /\ lastEvent.op = "resetClick"
    /\ lastEvent.wasDragging
    /\ lastEvent.previewBefore = 15
    /\ lastEvent.stateBefore = "running"
    /\ draggingRef

----------------------------------------------------------------------------
(* Teardown, checked under SpecTimer; the tick and totalSeconds, under Spec *)

\* C18: teardown cancels the tick schedule: once the host is torn down no
\* schedule is live, no tick fires, remainingSeconds does not change and
\* playAlarm is not invoked.
C18_NoTickAfterTeardown ==
    [][/\ ~mounted' => (liveIntervals' = {} /\ intervalRef' = NULL)
       /\ ~mounted =>
              /\ lastEvent'.op # "tick"
              /\ UNCHANGED <<remainingSeconds, state, alarmsThisRun, alarmFiredRef>>
      ]_vars

\* The host was torn down in the middle of a countdown that had ticked.
C18_Witness ==
    /\ ~mounted
    /\ lastEvent.op = "unmount"
    /\ lastEvent.stateBefore = "running"
    /\ ticksThisRun >= 1
    /\ remainingSeconds >= 1

\* C19 as stated: once a run has been started 0 <= remainingSeconds <=
\* totalSeconds, and each tick changes remainingSeconds from r to max(r - 1, 0)
\* and nothing else of the engine or the coordinator.
C19_AsStated ==
    [][/\ runTotal' >= 0 =>
              (remainingSeconds' >= 0 /\ remainingSeconds' <= totalSeconds')
       /\ lastEvent'.op = "tick" =>
              /\ remainingSeconds' = Max(remainingSeconds - 1, 0)
              /\ UNCHANGED <<state, intervalRef, liveIntervals, alarmFiredRef,
                             alarmsThisRun, totalSeconds, dragVars,
                             isDialDragging, dragPreviewMinutes>>
      ]_vars

\* C19 amended: as above, except that a tick that finds remainingSeconds <= 1
\* may also complete the run: the state becomes done, the schedule is
\* cancelled and the guarded alarm is signaled.
C19_TickDecrements ==
    [][/\ runTotal' >= 0 =>
              (remainingSeconds' >= 0 /\ remainingSeconds' <= totalSeconds')
       /\ lastEvent'.op = "tick" =>
              /\ remainingSeconds' = Max(remainingSeconds - 1, 0)
              /\ UNCHANGED <<totalSeconds, dragVars, isDialDragging, dragPreviewMinutes>>
              /\ \/ UNCHANGED <<state, intervalRef, liveIntervals, alarmFiredRef,
                                alarmsThisRun>>
                 \/ /\ remainingSeconds <= 1
                    /\ state' = "done"
                    /\ intervalRef' = NULL
                    /\ liveIntervals' = liveIntervals \ {intervalRef}
                    /\ alarmFiredRef'
                    /\ alarmsThisRun' \in {alarmsThisRun, alarmsThisRun + 1}
      ]_vars

\* The tick that takes a run of one minute from 1 to 0 has run and the run
\* was completed by it.
C19_Witness ==
    /\ lastEvent.op = "tick"
    /\ lastEvent.stateBefore = "running"
    /\ totalSeconds = 60
    /\ remainingSeconds = 0
    /\ ticksThisRun = 60
    /\ state = "done"

----------------------------------------------------------------------------
(* The tick schedule and the done state, checked under SpecTimer *)

\* C21: at every moment at most one tick schedule is live and it is the one
\* intervalRef holds; start() leaves its own schedule as the only one and
\* reset() leaves none; every interval callback that runs belongs to the
\* schedule that is current, never to a cancelled one.
C21_OneLiveSchedule ==
    [][/\ Cardinality(liveIntervals') <= 1
       /\ liveIntervals' \subseteq {intervalRef'}
       /\ lastEvent'.op = "start" =>
              (intervalRef' # NULL /\ liveIntervals' = {intervalRef'})
       /\ lastEvent'.op = "reset" => (intervalRef' = NULL /\ liveIntervals' = {})
       /\ lastEvent'.op = "tick" =>
              (lastEvent'.arg = intervalRef /\ liveIntervals = {intervalRef})
       /\ ~staleTick'
      ]_vars

\* A tick of the schedule of a start() that replaced a running countdown.
C21_Witness ==
    /\ lastEvent.op = "tick"
    /\ retargeted
    /\ ticksThisRun >= 1
    /\ liveIntervals = {intervalRef}
    /\ intervalRef # NULL

\* C22: done is terminal until the next start: while the state is done
\* remainingSeconds is 0 and no schedule is live, a tick leaves both as they
\* are, and the state leaves done only by start() (to running) or by reset()
\* (to idle).
C22_DoneIsTerminal ==
    [][/\ state' = "done" => (remainingSeconds' = 0 /\ liveIntervals' = {})
       /\ (state = "done" /\ lastEvent'.op = "tick") =>
              (state' = "done" /\ remainingSeconds' = 0)
       /\ (state = "done" /\ state' # "done") =>
              \/ lastEvent'.op \in {"start", "gestureEnd"} /\ state' = "running"
              \/ lastEvent'.op \in {"reset", "resetClick"} /\ state' = "idle"
      ]_vars

----------------------------------------------------------------------------
(* Properties of a gesture in progress and of its end, checked under Spec *)

\* C23: a gesture-start, a gesture-move and the preview they publish leave
\* the countdown engine untouched: state, remainingSeconds, the tick
\* schedule, the one-shot guard and the committed total are unchanged, and
\* while a drag is active the run is replaced only by the commit of a release.
C23_GestureLeavesEngineAlone ==
    [][/\ lastEvent'.op \in {"gestureStart", "gestureMove", "preview"} =>
              UNCHANGED <<timerVars, runTotal, ticksThisRun, totalSeconds>>
       /\ (draggingRef /\ runTotal' # runTotal) => lastEvent'.op = "gestureEnd"
       /\ (draggingRef /\ lastEvent'.op = "tick" /\ state = "running") =>
              remainingSeconds' = Decrement(remainingSeconds)
      ]_vars

\* A countdown has ticked while a drag that began during the run was active
\* and its preview was displayed.
C23_Witness ==
    /\ lastEvent.op = "tick"
    /\ draggingRef
    /\ gesture = "active"
    /\ isDialDragging
    /\ state = "running"
    /\ remainingSeconds < runTotal


\* C24: after every gesture-end that terminates a drag the drag session is
\* inactive and zero (draggingRef and isDragging false, angleDeg 0,
\* dragMinutes 0), it stays so until the next gesture-start, and once the
\* preview of that render has been delivered the coordinator shows no value
\* of the finished gesture.
C24_EndZeroesPreview ==
    /\ (lastEvent.op = "gestureEnd" /\ lastEvent.wasDragging) =>
           (~draggingRef /\ ~isDragging /\ angleDeg = 0 /\ dragMinutes = 0)
    /\ ~draggingRef => (~isDragging /\ angleDeg = 0 /\ dragMinutes = 0)
    /\ (~draggingRef /\ pendingPreviews = <<>>) =>
           (~isDialDragging /\ dragPreviewMinutes = 0)

\* A drag that previewed 15 minutes over a running countdown has ended and
\* the preview of the render after it has been delivered.
C24_Witness ==
    /\ gesture = "ended"
    /\ lastEvent.op = "preview"
    /\ pendingPreviews = <<>>
    /\ ~draggingRef
    /\ angleDeg = 0
    /\ dragMinutes = 0
    /\ ~isDialDragging
    /\ state = "running"
    /\ retargeted

----------------------------------------------------------------------------
(* Properties of the drag controller with pointer positions, checked under *)
(* SpecDial                                                                *)

\* The center of the rectangle the dial has now.
CenterNow ==
    [cx |-> (2 * dialRect.left + dialRect.width) \div 2,
     cy |-> (2 * dialRect.top + dialRect.height) \div 2]

\* C25: while a drag is active the gesture-start sample and every move sample
\* publish a preview: right after it the drag session holds the clockwise
\* angle from 12 o'clock of the pointer as seen from the center of the dial,
\* with 0 shown as 360, and dragMinutes is that angle converted, an integer
\* in [1, 60].
C25_SamplePublishesPreview ==
    (lastEvent.op \in {"gestureStart", "gestureMove"} /\ draggingRef) =>
        LET dx == samplePoint.x - CenterNow.cx
            dy == samplePoint.y - CenterNow.cy IN
        /\ isDragging
        /\ (dx = 0 /\ dy < 0) => angleDeg = 360
        /\ (dx = 0 /\ dy > 0) => angleDeg = 180
        /\ (dx < 0 /\ dy = 0) => angleDeg = 270
        /\ (dx < 0 /\ dy = dx) => angleDeg = 315
        /\ (dx < 0 /\ dy = -dx) => angleDeg = 225
        /\ (dx = 0 /\ dy = 0) => angleDeg = 90
        /\ angleDeg \in 1..360
        /\ dragMinutes \in 1..60
        /\ \E r \in 0..60 :
               /\ 12 * r - 6 <= 2 * angleDeg
               /\ 2 * angleDeg < 12 * r + 6
               /\ dragMinutes = (IF r < 1 THEN 1 ELSE r)

\* A move of a touch gesture up and to the left of the dial, after the layout
\* had moved the dial, previews 315 degrees as 53 minutes.
C25_Witness ==
    /\ lastEvent.op = "gestureMove"
    /\ draggingRef
    /\ pressButton = "touch"
    /\ dialRect = RectShifted
    /\ angleDeg = 315
    /\ dragMinutes = 53


\* The angle of the pointer p as seen from the center that the press which
\* began the gesture measured, with 0 shown as 360.
AngleFromPressCenter(p) ==
    LET a == getAngleFromCenter(pressCenter.cx, pressCenter.cy, p.x, p.y) IN
    IF a = 0 THEN 360 ELSE a

\* C26: the center measured at the idle-to-dragging transition is the one
\* used for every move and for the release of that gesture: each move
\* previews, and the release commits, the angle of the pointer as seen from
\* that center, whatever the layout did to the dial in between.
C26_CenterFixedDuringGesture ==
    [][/\ (draggingRef /\ lastEvent'.op = "gestureMove") =>
              /\ angleDeg' = AngleFromPressCenter(samplePoint')
              /\ dragMinutes' = angleToMinutes(AngleFromPressCenter(samplePoint'))
       /\ (draggingRef /\ lastEvent'.op = "gestureEnd") =>
              lastEvent'.committed = angleToMinutes(AngleFromPressCenter(samplePoint'))
      ]_vars


\* C27: the drag controller leaves idle only on a press of the primary mouse
\* button or on a first touch point on the dial: a press of another mouse
\* button starts no drag, and every commit ends a gesture that a primary
\* press or a touch began.
C27_OnlyPrimaryPressStartsDrag ==
    [][/\ (~draggingRef /\ draggingRef') =>
              (lastEvent'.op = "gestureStart" /\ pressButton' \in {"primary", "touch"})
       /\ (~draggingRef /\ lastEvent'.op = "gestureStart" /\ pressButton' = "secondary") =>
              (~draggingRef' /\ ~isDragging' /\ UNCHANGED <<angleDeg, dragMinutes>>)
       /\ (lastEvent'.op = "gestureEnd" /\ lastEvent'.committed # 0) =>
              pressButton \in {"primary", "touch"}
      ]_vars


\* C28: when the dial measures as a zero-size rectangle during a gesture the
\* conversion still yields a defined angle (90 degrees for a pointer on the
\* collapsed rectangle itself): a move previews an angle in [1, 360] and a
\* duration in [1, 60], and the release commits a duration in [1, 60], starts
\* the engine with it and leaves the controller inactive and zero.
C28_DegenerateDialStillCommits ==
    (dialRect.width = 0 \/ dialRect.height = 0) =>
        LET onRect == samplePoint.x = dialRect.left /\ samplePoint.y = dialRect.top IN
        /\ (lastEvent.op = "gestureMove" /\ draggingRef) =>
               /\ angleDeg \in 1..360
               /\ dragMinutes \in 1..60
               /\ onRect => (angleDeg = 90 /\ dragMinutes = 15)
        /\ (lastEvent.op = "gestureEnd" /\ lastEvent.wasDragging) =>
               /\ lastEvent.committed \in 1..60
               /\ onRect => lastEvent.committed = 15
               /\ commitsThisGesture = 1
               /\ runTotal = lastEvent.committed * 60
               /\ ~draggingRef
               /\ ~isDragging
               /\ angleDeg = 0
               /\ dragMinutes = 0

\* A gesture begun on the dial was released on the very point the dial had
\* collapsed to in the meantime.
C28_Witness ==
    /\ lastEvent.op = "gestureEnd"
    /\ lastEvent.wasDragging
    /\ dialRect = RectCollapsed
    /\ samplePoint = [x |-> 2, y |-> 0]
    /\ lastEvent.committed = 15
    /\ state = "running"
    /\ angleDeg = 0

----------------------------------------------------------------------------
(* Properties of the clip and of the singletons, checked under SpecAlarm *)

\* C29: once play() has started the clip at full volume no callback of a
\* prime() pauses it, rewinds it or changes its volume before the playback
\* ends: a step that runs only callbacks of a prime() while the clip is
\* sounding leaves it sounding at full volume.
C29_PrimeCallbacksSpareAlarmClip ==
    [][(/\ fallbackAudio.playback = "playing"
        /\ alarmEvent'.op \in {"clipSettled", "clipAborted"}
        /\ alarmEvent'.reason = "prime") =>
           (fallbackAudio'.playback = "playing" /\ fallbackAudio'.volume = 1)
      ]_vars


\* C30: the audio output and the clip element are singletons constructed
\* lazily and never reconstructed: a call constructs the output only when
\* there is none and the clip only when there is none, and neither is ever
\* dropped, so that at most one of each is created and later calls reuse it.
C30_SingletonsBuiltOnce ==
    [][/\ ("ctx" \in alarmEvent'.built => audioCtx = "null" /\ audioCtx' # "null")
       /\ ("clip" \in alarmEvent'.built => ~fallbackAudio.created /\ fallbackAudio'.created)
       /\ (audioCtx # "null" => audioCtx' # "null")
       /\ (fallbackAudio.created => fallbackAudio'.created)
      ]_vars

\* A prime() that found both objects in place and built nothing.
C30_Witness ==
    /\ alarmEvent.op = "prime"
    /\ ~alarmEvent.escaped
    /\ alarmEvent.built = {}
    /\ audioCtx # "null"
    /\ fallbackAudio.created

----------------------------------------------------------------------------
(* Properties of the completion modal, checked under SpecModal *)

DismissOps == {"dismissButton", "dismissEscape", "dismissAuto"}

\* C31: the completion affordance is shown only while the state is done, and
\* a dismiss action (button, Escape or auto-close) changes nothing in the
\* engine or the alarm: state, remainingSeconds, totalSeconds, the schedule,
\* the one-shot guard and the alarm session are left as they were.
C31_DismissLeavesEngineAndAlarm ==
    /\ [](isCompletionModalOpen => state = "done")
    /\ [][lastEvent'.op \in DismissOps =>
            UNCHANGED <<state, remainingSeconds, totalSeconds, intervalRef, liveIntervals,
                        alarmFiredRef, alarmsThisRun, alarmVars, runVars>>]_vars

\* The modal was open on a finished run and its timeout has closed it.
C31_Witness ==
    /\ lastEvent.op = "dismissAuto"
    /\ state = "done"
    /\ remainingSeconds = 0
    /\ totalSeconds = SECONDS_PER_MINUTE
    /\ isCompletionDismissed
    /\ ~isCompletionModalOpen

----------------------------------------------------------------------------
(* Further properties of the application, checked under Spec *)

\* C32: in every reachable state the minutes text and the seconds text handed
\* to the display are each the placeholder or exactly two decimal digits, with
\* minutes in 00..60 and seconds in 00..59.
C32_TextsWellFormed ==
    /\ displayMins \in {"--"} \cup {TwoDigits(m) : m \in 0..MAX_MINUTES}
    /\ displaySecs \in {"--"} \cup {TwoDigits(sec) : sec \in 0..(SECONDS_PER_MINUTE - 1)}

\* Nine seconds before the end of a run both texts carry a padding zero.
C32_Witness ==
    /\ state = "running"
    /\ ~isDialDragging
    /\ remainingSeconds = 9
    /\ displayMins = "00"
    /\ displaySecs = "09"

----------------------------------------------------------------------------
(* Further properties of the countdown engine, checked under SpecTimer *)

\* C33: playAlarm is invoked only at a running-to-done transition of a run
\* that has counted down to zero: never while the engine is idle, and never
\* after a reset() until a later start has counted down, also when the reset
\* arrives between the tick to 0 and the completion check.
C33_AlarmOnlyAtRunningToDone ==
    [][alarmsThisRun' > alarmsThisRun =>
           /\ state = "running"
           /\ state' = "done"
           /\ remainingSeconds' = 0
           /\ ~resetSinceStart
      ]_vars


\* The last of the start and reset calls made so far was a start.
LastCallWasStart == runTotal >= 0 /\ ~resetSinceStart

\* C34: if the engine is running and ticks keep firing, then with no further
\* start or reset the engine eventually reaches done with remainingSeconds = 0
\* and the alarm signalled: in a behaviour whose start and reset calls come
\* to an end with a start, the engine ends, and stays, in that state.
C34_RunningLeadsToDone ==
    <>[][~(Start \/ Reset)]_vars =>
        <>[](LastCallWasStart =>
                (state = "done" /\ remainingSeconds = 0 /\ alarmsThisRun >= 1))


\* C35: a live tick schedule exists only while the state is running: in every
\* state where the completion check has run (no completion effect is
\* pending), state = idle or state = done implies that no schedule is live.
C35_ScheduleOnlyWhileRunning ==
    (EffectsSettled /\ state \in {"idle", "done"}) =>
        (liveIntervals = {} /\ intervalRef = NULL)

\* A run of the effect variant has ended: done, the check has run and the
\* schedule of the run is gone.
C35_Witness ==
    /\ variant = "effect"
    /\ EffectsSettled
    /\ state = "done"
    /\ runTotal >= 1
    /\ ticksThisRun = runTotal
    /\ liveIntervals = {}

----------------------------------------------------------------------------
(* Further properties of the coordinator, checked under Spec *)

\* isResetDisabled of App.tsx.
isResetDisabled == state = "idle" /\ totalSeconds = 0

\* C36: the engine is idle exactly when the committed totalSeconds is 0:
\* state = idle implies totalSeconds = 0 and state in {running, done} implies
\* totalSeconds >= 60, so that the label SET is never displayed and the reset
\* button is disabled exactly when the engine is idle.
C36_IdleIffNoTotal ==
    /\ state = "idle" => totalSeconds = 0
    /\ state \in {"running", "done"} => totalSeconds >= MIN_MINUTES * SECONDS_PER_MINUTE
    /\ label # "SET"
    /\ isResetDisabled <=> state = "idle"


\* C37: mouse and touch share one drag session. Under every interleaving of
\* mouse-down, touch-start, mouse-up and touch-end, a gesture-start received
\* while already dragging opens no second session and commits nothing, the
\* first gesture-end of either kind commits exactly once and ends the
\* session, and a gesture-end with no session open commits nothing.
C37_OneSessionForMouseAndTouch ==
    [][/\ (lastEvent'.op = "gestureStart" /\ draggingRef) =>
              /\ draggingRef' /\ isDragging'
              /\ commitsThisGesture' = commitsThisGesture
              /\ UNCHANGED <<timerVars, timerHist, totalSeconds>>
       /\ (lastEvent'.op = "gestureEnd" /\ draggingRef) =>
              /\ ~draggingRef' /\ ~isDragging'
              /\ lastEvent'.committed >= MIN_MINUTES
              /\ commitsThisGesture' = 1
              /\ totalSeconds' = lastEvent'.committed * SECONDS_PER_MINUTE
              /\ state' = "running"
              /\ remainingSeconds' = totalSeconds'
       /\ (lastEvent'.op = "gestureEnd" /\ ~draggingRef) =>
              /\ lastEvent'.committed = 0
              /\ UNCHANGED <<timerVars, timerHist, totalSeconds, dragVars, dragHist>>
      ]_vars

\* Two presses, then a release that committed 15 minutes, then the release
\* of the other input, which found no session: the countdown it left alone
\* is the one the commit started.
C37_Witness ==
    /\ lastEvent.op = "gestureEnd"
    /\ ~lastEvent.wasDragging
    /\ lastEvent.committed = 0
    /\ gesture = "ended"
    /\ commitsThisGesture = 1
    /\ ~draggingRef
    /\ state = "running"
    /\ totalSeconds = 15 * SECONDS_PER_MINUTE
    /\ remainingSeconds = totalSeconds


\* The coordinator's preview tuple is the one the controller publishes.
PreviewInSync ==
    /\ isDialDragging = isDragging
    /\ dragPreviewMinutes = IF isDragging THEN dragMinutes ELSE 0

\* C38 as stated: whenever no preview notification is pending the
\* coordinator's isDragging flag and preview minutes equal the controller's
\* (0 when not dragging), also after a reset request made during a drag.
C38_AsStated == pendingPreviews = <<>> => PreviewInSync

\* C38, amended: whenever no preview notification is pending the coordinator's
\* tuple equals the controller's, except after a reset request made while a
\* drag is active: from that request until the next notification the
\* coordinator's tuple is (false, 0) while the controller is still dragging.
C38_PreviewMirrorsController ==
    /\ [](pendingPreviews = <<>> =>
             \/ PreviewInSync
             \/ (isDragging /\ ~isDialDragging /\ dragPreviewMinutes = 0))
    /\ [][(pendingPreviews' = <<>> /\ ~PreviewInSync') =>
             \/ (lastEvent'.op = "resetClick" /\ isDragging)
             \/ (pendingPreviews = <<>> /\ ~PreviewInSync)
         ]_vars

\* A reset request made during a drag at 15 minutes: the coordinator's tuple
\* is cleared while the controller still holds the drag.
C38_Witness ==
    /\ lastEvent.op = "resetClick"
    /\ pendingPreviews = <<>>
    /\ isDragging
    /\ dragMinutes = 15
    /\ ~isDialDragging
    /\ dragPreviewMinutes = 0

----------------------------------------------------------------------------
(* Properties of the unlock listeners, checked under SpecUnlock *)

\* C39: installAudioUnlock registers its gesture listeners at most once
\* however often it is called; every user gesture invokes prime() until a
\* gesture is handled at which the synthesized output is unlocked, at which
\* point the listeners are removed and no later gesture invokes prime()
\* through them; and if unlocking succeeds and gestures keep arriving the
\* listeners are eventually removed.
C39_UnlockListeners ==
    /\ [](unlockHandlers <= 1)
    /\ [][Gesture =>
            /\ unlockHandlers > 0 =>
                   /\ unlockEvent'.primed
                   /\ alarmEvent'.op = "prime"
                   /\ unlockEvent'.removed <=> isAudioUnlocked'
                   /\ unlockHandlers' = IF isAudioUnlocked' THEN 0 ELSE unlockHandlers
            /\ unlockHandlers = 0 =>
                   /\ ~unlockEvent'.primed
                   /\ UNCHANGED alarmVars
         ]_vars
    /\ [][(audioUnlockInstalled /\ unlockHandlers = 0) => unlockHandlers' = 0]_vars
    /\ (isAudioUnlocked /\ unlockHandlers > 0) ~> (unlockHandlers = 0)

\* The output was unlocked by the callback of an earlier prime and the
\* gesture that followed removed the listeners.
C39_Witness ==
    /\ unlockEvent.op = "gesture"
    /\ unlockEvent.primed
    /\ unlockEvent.removed
    /\ unlockHandlers = 0
    /\ audioUnlockInstalled
    /\ isAudioUnlocked
    /\ alarmEvent.op = "prime"
    /\ alarmEvent.attempts = {}

----------------------------------------------------------------------------
(* start(0), checked under SpecTimerLive *)

\* C40: start(0) is accepted like any other total: it ends with state = done,
\* remainingSeconds = 0, the alarm signalled exactly once and no tick
\* schedule left pending. In a behaviour whose start and reset calls come to
\* an end with start(0), the engine ends, and stays, in that state.
C40_StartZeroEndsDone ==
    <>[][~(Start \/ Reset)]_vars =>
        <>[]((LastCallWasStart /\ runTotal = 0) =>
                /\ state = "done"
                /\ remainingSeconds = 0
                /\ alarmsThisRun = 1
                /\ liveIntervals = {}
                /\ intervalRef = NULL)


\* start(0) was the last call and the engine has come to rest.
C40_Witness ==
    /\ LastCallWasStart
    /\ runTotal = 0
    /\ pendingEffects = <<>>
    /\ state = "done"
    /\ remainingSeconds = 0
    /\ alarmsThisRun = 1
    /\ liveIntervals = {}

====
